---- MODULE Spec2Model ----
(***************************************************************************)
(* Model of controller/ofctrl.c: the desired and installed flow tables,    *)
(* the OpenFlow connection state machine, and ofctrl_put().                *)
(***************************************************************************)
EXTENDS Integers, Sequences, FiniteSets, TLC

(* ------------------------------ bounds --------------------------------- *)

\* Number of distinct flow keys (table_id, priority, match).
NumKeys == 2

\* Number of distinct SB uuids (source identifiers).
NumSources == 3

\* Largest number of desired flows held by the desired flow table.
MaxFlows == 2

\* Largest length of an ofpacts buffer.
MaxActsLen == 2

Keys == 1..NumKeys

Sources == 1..NumSources

\* The single actions an ofpacts buffer is made of.
ActionSet == {"a", "b"}

\* Addresses of struct desired_flow objects.
DesiredIds == 1..MaxFlows

(* ------------------------- program constants --------------------------- *)

\* The null pointer.
NULL == 0

(* ------------------------------ state ---------------------------------- *)

VARIABLES
    dflows,             \* heap of struct desired_flow, by address
    match_flow_table,   \* ovn_desired_flow_table.match_flow_table: hash -> chain
    uuid_flow_table,    \* ovn_desired_flow_table.uuid_flow_table: sb_uuid -> stf.flows
    iflows,             \* heap of struct installed_flow, by address
    installed_flows,    \* static hmap installed_flows: hash -> chain
    flood_remove_nodes, \* the caller's hmap of ofctrl_flood_remove_node
    state,              \* static enum ofctrl_state state
    xid,                \* static ovs_be32 xid
    xid2,               \* static ovs_be32 xid2
    mff_ovn_geneve,     \* static enum mf_field_id mff_ovn_geneve
    seqno,              \* static unsigned int seqno
    need_reinstall_flows, \* static bool need_reinstall_flows
    skipped_last_time,  \* static bool of ofctrl_put()
    old_nb_cfg,         \* static int64_t of ofctrl_put()
    cur_cfg,            \* static int64_t cur_cfg
    flow_updates,       \* static list of struct ofctrl_flow_update
    groups,             \* the group extend table
    meters,             \* the meter extend table
    pending_ct_zones,   \* the caller's shash of ct_zone_pending_entry
    connected,          \* rconn_is_connected(swconn)
    connection_seqno,   \* rconn_get_connection_seqno(swconn)
    txq,                \* packets queued on swconn, counted by tx_counter
    sw_pending,         \* requests the switch holds and has not answered
    rx,                 \* packets received on swconn and not yet taken
    reconnected,        \* the connection came up and no ofctrl_put() has
                        \* updated the flow table since
    aborted,            \* an ovs_assert() failed: the process is gone
    last                \* the public operation that produced this state

vars == <<dflows, match_flow_table, uuid_flow_table, iflows, installed_flows,
          flood_remove_nodes, state, xid, xid2, mff_ovn_geneve, seqno,
          need_reinstall_flows, skipped_last_time, old_nb_cfg, cur_cfg,
          flow_updates, groups, meters, pending_ct_zones, connected,
          connection_seqno, txq, sw_pending, rx, reconnected, aborted, last>>

(* ------------------------ lists and hash maps -------------------------- *)

Range(s) == {s[n] : n \in 1..Len(s)}

Reverse(s) == [n \in 1..Len(s) |-> s[Len(s) + 1 - n]]

Count(s, x) == Cardinality({n \in 1..Len(s) : s[n] = x})

\* ovs_list_remove() of the first node of 's' that holds 'x'.
ovs_list_remove(s, x) ==
    IF x \notin Range(s) THEN s
    ELSE LET n == CHOOSE n \in 1..Len(s) :
                      s[n] = x /\ \A m \in 1..(n - 1) : s[m] # x
         IN  SubSeq(s, 1, n - 1) \o SubSeq(s, n + 1, Len(s))

\* ovs_list_remove() of every node of 's' that holds 'x'.
ovs_list_remove_all(s, x) == SelectSeq(s, LAMBDA y : y # x)

\* free(): the heap without the object at address 'x'.
Free(heap, x) == [y \in DOMAIN heap \ {x} |-> heap[y]]

\* malloc(): the lowest address that is not in use.
Malloc(heap, pool) == CHOOSE x \in pool \ DOMAIN heap :
                          \A y \in pool \ DOMAIN heap : x <= y

\* hmap_insert(): the node goes to the head of its bucket; when the map
\* grows ('resized') every bucket chain is rebuilt in reverse order.
hmap_insert(hmap, hash, node, resized) ==
    LET h1 == [hmap EXCEPT ![hash] = <<node>> \o @]
    IN  IF resized THEN [b \in DOMAIN h1 |-> Reverse(h1[b])] ELSE h1

\* hmap_remove().
hmap_remove(hmap, hash, node) ==
    [hmap EXCEPT ![hash] = ovs_list_remove(@, node)]

\* HMAP_FOR_EACH: the nodes of every bucket, bucket by bucket.
RECURSIVE hmap_nodes_from(_, _)
hmap_nodes_from(hmap, b) ==
    IF b \notin DOMAIN hmap THEN <<>>
    ELSE hmap[b] \o hmap_nodes_from(hmap, b + 1)

hmap_nodes(hmap) == hmap_nodes_from(hmap, 1)

(* --------------------------- extend tables ----------------------------- *)

\* An extend table: the desired entries, each a table_id and the sb_uuid that
\* wants it, and the table_ids of the existing (installed) entries.
ExtendTableInit == [desired |-> {}, existing |-> {}]

\* EXTEND_TABLE_FOR_EACH_UNINSTALLED: the desired table_ids that do not exist.
extend_table_uninstalled(table) ==
    {e.table_id : e \in table.desired} \ table.existing

\* EXTEND_TABLE_FOR_EACH_INSTALLED: the existing table_ids nobody desires.
extend_table_installed(table) ==
    table.existing \ {e.table_id : e \in table.desired}

\* ovn_extend_table_remove_existing().
ovn_extend_table_remove_existing(table, table_id) ==
    [table EXCEPT !.existing = @ \ {table_id}]

\* ovn_extend_table_sync(): every desired entry exists.
ovn_extend_table_sync(table) ==
    [table EXCEPT !.existing = @ \cup {e.table_id : e \in table.desired}]

\* ovn_extend_table_clear() of the existing entries.
ovn_extend_table_clear(table) == [table EXCEPT !.existing = {}]

\* ovn_extend_table_remove_desired().
ovn_extend_table_remove_desired(table, sb_uuid) ==
    [table EXCEPT !.desired = {e \in @ : e.sb_uuid # sb_uuid}]

(* ------------------------------ flows ---------------------------------- *)

\* ovn_flow_match_hash(): the hash of a flow key.  Keys are numbered, and a
\* key's number stands for its hash.
ovn_flow_match_hash(key) == key

\* desired_flow_alloc(): a desired flow with no reference and no installed
\* flow, not on any list.
desired_flow_alloc(key, cookie, actions) ==
    [key |-> key, ofpacts |-> actions, cookie |-> cookie,
     references |-> <<>>, installed_flow |-> NULL, on_list |-> FALSE]

\* The memory the operations work on, as one record.
Mem == [d |-> dflows, m |-> match_flow_table, u |-> uuid_flow_table,
        i |-> iflows, h |-> installed_flows, nodes |-> flood_remove_nodes,
        state |-> state, xid |-> xid, xid2 |-> xid2,
        mff_ovn_geneve |-> mff_ovn_geneve, seqno |-> seqno,
        need_reinstall_flows |-> need_reinstall_flows,
        skipped_last_time |-> skipped_last_time, old_nb_cfg |-> old_nb_cfg,
        cur_cfg |-> cur_cfg, flow_updates |-> flow_updates,
        groups |-> groups, meters |-> meters,
        pending_ct_zones |-> pending_ct_zones, connected |-> connected,
        connection_seqno |-> connection_seqno, txq |-> txq,
        sw_pending |-> sw_pending, rx |-> rx,
        visited |-> <<>>, entry |-> "", msgs |-> <<>>, ran |-> FALSE,
        handled |-> <<>>, iterations |-> 0, wake |-> FALSE, ok |-> TRUE]

\* ovs_assert(): a failed assertion aborts.
ovs_assert(M, cond) == IF cond THEN M ELSE [M EXCEPT !.ok = FALSE]

\* A lookup by key alone, whatever the sb_uuid.
desired_flow_lookup_any(M, key, sb_uuid) ==
    LET chain == M.m[ovn_flow_match_hash(key)]
        hits == {n \in 1..Len(chain) : M.d[chain[n]].key = key}
    IN  IF hits = {} THEN NULL
        ELSE chain[CHOOSE n \in hits : \A m \in hits : n <= m]

\* A desired_flow_lookup() that returns the last such flow of the bucket.
desired_flow_lookup_last(M, key, sb_uuid) ==
    LET chain == M.m[ovn_flow_match_hash(key)]
        hit(n) == /\ M.d[chain[n]].key = key
                  /\ \/ sb_uuid = NULL
                     \/ sb_uuid \in Range(M.d[chain[n]].references)
        hits == {n \in 1..Len(chain) : hit(n)}
    IN  IF hits = {} THEN NULL
        ELSE chain[CHOOSE n \in hits : \A m \in hits : n >= m]

\* desired_flow_lookup(): the first desired flow of the bucket with the
\* target's key that, when 'sb_uuid' is given, is referenced by it.
desired_flow_lookup(M, key, sb_uuid) ==
    LET chain == M.m[ovn_flow_match_hash(key)]
        hit(n) == /\ M.d[chain[n]].key = key
                  /\ \/ sb_uuid = NULL
                     \/ sb_uuid \in Range(M.d[chain[n]].references)
        hits == {n \in 1..Len(chain) : hit(n)}
    IN  IF hits = {} THEN NULL
        ELSE chain[CHOOSE n \in hits : \A m \in hits : n <= m]

\* An installed_flow_lookup() that finds nothing.
installed_flow_lookup_none(M, key) == NULL

\* installed_flow_lookup(): the first installed flow of the bucket with the
\* target's key.
installed_flow_lookup(M, key) ==
    LET chain == M.h[ovn_flow_match_hash(key)]
        hits == {n \in 1..Len(chain) : M.i[chain[n]].key = key}
    IN  IF hits = {} THEN NULL
        ELSE chain[CHOOSE n \in hits : \A m \in hits : n <= m]

\* A link_installed_to_desired() that does not return early when 'd' is
\* the desired_flow of 'i' already.
link_installed_to_desired_again(M, i, d) ==
    [(IF M.i[i].desired_refs = <<>>
      THEN ovs_assert(M, M.i[i].desired_flow = NULL) ELSE M)
       EXCEPT !.i[i].desired_flow = IF M.i[i].desired_refs = <<>> THEN d ELSE @,
              !.i[i].desired_refs = Append(@, d),
              !.d[d].installed_flow = i]

\* link_installed_to_desired().
link_installed_to_desired(M, i, d) ==
    IF M.i[i].desired_flow = d THEN M
    ELSE LET empty == M.i[i].desired_refs = <<>>
             M1 == IF empty THEN ovs_assert(M, M.i[i].desired_flow = NULL)
                   ELSE M
         IN  [M1 EXCEPT
                !.i[i].desired_flow = IF empty THEN d ELSE @,
                !.i[i].desired_refs = Append(@, d),
                !.d[d].installed_flow = i]

\* An unlink_installed_to_desired() that leaves 'i' without a desired_flow
\* when 'd' was it, whatever is left on desired_refs.
unlink_installed_to_desired_none(M, i, d) ==
    IF ~(/\ i # NULL
         /\ i \in DOMAIN M.i
         /\ M.i[i].desired_flow # NULL
         /\ M.i[i].desired_refs # <<>>
         /\ d # NULL
         /\ d \in DOMAIN M.d
         /\ M.d[d].installed_flow = i)
    THEN [M EXCEPT !.ok = FALSE]
    ELSE [M EXCEPT
            !.i[i].desired_refs = ovs_list_remove(@, d),
            !.d[d].installed_flow = NULL,
            !.i[i].desired_flow = IF @ = d THEN NULL ELSE @]

\* unlink_installed_to_desired().
unlink_installed_to_desired(M, i, d) ==
    IF ~(/\ i # NULL
         /\ i \in DOMAIN M.i
         /\ M.i[i].desired_flow # NULL
         /\ M.i[i].desired_refs # <<>>
         /\ d # NULL
         /\ d \in DOMAIN M.d
         /\ M.d[d].installed_flow = i)
    THEN [M EXCEPT !.ok = FALSE]
    ELSE LET refs == ovs_list_remove(M.i[i].desired_refs, d)
         IN  [M EXCEPT
                !.i[i].desired_refs = refs,
                !.d[d].installed_flow = NULL,
                !.i[i].desired_flow =
                    IF @ = d
                    THEN (IF refs = <<>> THEN NULL ELSE Head(refs))
                    ELSE @]

\* unlink_all_refs_for_installed_flow().
RECURSIVE unlink_all_refs_for_installed_flow(_, _)
unlink_all_refs_for_installed_flow(M, i) ==
    IF ~M.ok \/ M.i[i].desired_refs = <<>> THEN M
    ELSE unlink_all_refs_for_installed_flow(
             unlink_installed_to_desired(M, i, Head(M.i[i].desired_refs)), i)

\* desired_flow_destroy(), with its two assertions.
desired_flow_destroy(M, f) ==
    LET M1 == ovs_assert(M, /\ M.d[f].references = <<>>
                            /\ M.d[f].installed_flow = NULL)
    IN  [M1 EXCEPT !.d = Free(@, f)]

\* installed_flow_destroy(), with its two assertions.
installed_flow_destroy(M, i) ==
    LET M1 == ovs_assert(M, /\ M.i[i].desired_refs = <<>>
                            /\ M.i[i].desired_flow = NULL)
    IN  [M1 EXCEPT !.i = Free(@, i)]

\* link_flow_to_sb(): a new sb_flow_ref at the tail of f->references and at
\* the tail of the sb_uuid's list, whose sb_to_flow is made when missing.
link_flow_to_sb(M, f, sb_uuid) ==
    [M EXCEPT
       !.d[f].references = Append(@, sb_uuid),
       !.u = IF sb_uuid \in DOMAIN @
             THEN [@ EXCEPT ![sb_uuid] = Append(@, f)]
             ELSE @ @@ (sb_uuid :> <<f>>)]

\* A removal that leaves the unreferenced flow where it is.
remove_unreferenced_kept(M, f) == M

\* The removal of a desired flow whose last reference is gone: out of the
\* match table, unlinked from its installed flow, destroyed.
remove_unreferenced(M, f) ==
    LET M1 == [M EXCEPT !.m = hmap_remove(@, ovn_flow_match_hash(M.d[f].key), f)]
        M2 == IF M1.d[f].installed_flow # NULL
              THEN unlink_installed_to_desired(M1, M1.d[f].installed_flow, f)
              ELSE M1
    IN  IF M2.ok THEN desired_flow_destroy(M2, f) ELSE M2

\* An ofctrl_check_and_add_flow() that inserts without the lookup.
ofctrl_check_and_add_flow_always(M, key, cookie, actions, sb_uuid, resized) ==
    IF Cardinality(DOMAIN M.d) >= MaxFlows THEN M
    ELSE LET f == Malloc(M.d, DesiredIds)
         IN  link_flow_to_sb(
                 [M EXCEPT
                    !.d = @ @@ (f :> desired_flow_alloc(key, cookie, actions)),
                    !.m = hmap_insert(@, ovn_flow_match_hash(key), f, resized)],
                 f, sb_uuid)

\* ofctrl_check_and_add_flow().
ofctrl_check_and_add_flow(M, key, cookie, actions, sb_uuid, resized) ==
    IF desired_flow_lookup(M, key, sb_uuid) # NULL THEN M
    ELSE LET f == Malloc(M.d, DesiredIds)
             M1 == [M EXCEPT
                      !.d = @ @@ (f :> desired_flow_alloc(key, cookie, actions)),
                      !.m = hmap_insert(@, ovn_flow_match_hash(key), f, resized)]
         IN  link_flow_to_sb(M1, f, sb_uuid)

\* A compound buffer with the new actions first.
ofpbuf_compound_prepend(existing, new) == new \o existing

\* The compound buffer of ofctrl_add_or_append_flow(): the existing actions
\* followed by the new ones.
ofpbuf_compound(existing, new) == existing \o new

\* ofctrl_add_or_append_flow().
ofctrl_add_or_append_flow(M, key, cookie, actions, sb_uuid, resized) ==
    LET existing == desired_flow_lookup(M, key, NULL)
    IN  IF existing # NULL
        THEN link_flow_to_sb(
                 [M EXCEPT !.d[existing].ofpacts = ofpbuf_compound(@, actions)],
                 existing, sb_uuid)
        ELSE LET f == Malloc(M.d, DesiredIds)
                 M1 == [M EXCEPT
                          !.d = @ @@ (f :> desired_flow_alloc(key, cookie, actions)),
                          !.m = hmap_insert(@, ovn_flow_match_hash(key), f, resized)]
             IN  link_flow_to_sb(M1, f, sb_uuid)

\* The hmap_remove() and free() of an sb_to_flow.
sb_to_flow_remove(uuid_table, sb_uuid) ==
    [s \in DOMAIN uuid_table \ {sb_uuid} |-> uuid_table[s]]

\* The loop of remove_flows_from_sb_to_flow() over the sb_flow_refs 'flows'
\* of 'sb_uuid'.
RECURSIVE remove_sfrs(_, _, _)
remove_sfrs(M, sb_uuid, flows) ==
    IF ~M.ok \/ flows = <<>> THEN M
    ELSE LET f == Head(flows)
             M1 == [M EXCEPT
                      !.d[f].references = ovs_list_remove(@, sb_uuid),
                      !.u[sb_uuid] = Tail(@)]
             M2 == IF M1.d[f].references = <<>>
                   THEN remove_unreferenced(M1, f)
                   ELSE M1
         IN  remove_sfrs(M2, sb_uuid, Tail(flows))

\* remove_flows_from_sb_to_flow().
remove_flows_from_sb_to_flow(M, sb_uuid) ==
    LET M1 == remove_sfrs(M, sb_uuid, M.u[sb_uuid])
    IN  IF M1.ok THEN [M1 EXCEPT !.u = sb_to_flow_remove(@, sb_uuid)] ELSE M1

\* sb_to_flow_find() and the call it guards in ofctrl_remove_flows().
ofctrl_remove_flows(M, sb_uuid) ==
    [(IF sb_uuid \in DOMAIN M.u THEN remove_flows_from_sb_to_flow(M, sb_uuid)
      ELSE M)
       EXCEPT !.groups = ovn_extend_table_remove_desired(@, sb_uuid),
              !.meters = ovn_extend_table_remove_desired(@, sb_uuid)]

\* ovn_desired_flow_table_clear().
RECURSIVE ovn_desired_flow_table_clear(_)
ovn_desired_flow_table_clear(M) ==
    IF ~M.ok \/ DOMAIN M.u = {} THEN M
    ELSE LET s == CHOOSE s \in DOMAIN M.u : \A t \in DOMAIN M.u : s <= t
         IN  ovn_desired_flow_table_clear(remove_flows_from_sb_to_flow(M, s))

\* A find that reports every sb_uuid as a node already.
flood_remove_find_node_any(nodes, sb_uuid) == TRUE

\* flood_remove_find_node().
flood_remove_find_node(nodes, sb_uuid) == sb_uuid \in Range(nodes)

\* An add that leaves the nodes as they are.
ofctrl_flood_remove_add_node_none(nodes, sb_uuid) == nodes

\* ofctrl_flood_remove_add_node().
ofctrl_flood_remove_add_node(nodes, sb_uuid) == Append(nodes, sb_uuid)

\* ovs_list_remove() of 'n' nodes of 's' that hold 'x'.
RECURSIVE ovs_list_remove_n(_, _, _)
ovs_list_remove_n(s, x, n) ==
    IF n = 0 THEN s ELSE ovs_list_remove_n(ovs_list_remove(s, x), x, n - 1)

\* First loop of flood_remove_flows_for_sb_uuid(): drops every sb_flow_ref
\* of 'sb_uuid'; a flow left without reference is destroyed, any other goes
\* to the tail of 'to_be_removed'.
RECURSIVE flood_traverse(_, _, _, _)
flood_traverse(M, sb_uuid, flows, to_be_removed) ==
    IF ~M.ok \/ flows = <<>> THEN [mem |-> M, to_be_removed |-> to_be_removed]
    ELSE LET f == Head(flows)
             M1 == [M EXCEPT
                      !.d[f].references = ovs_list_remove(@, sb_uuid),
                      !.u[sb_uuid] = Tail(@)]
             M2 == ovs_assert(M1, ~M1.d[f].on_list)
         IN  IF ~M2.ok THEN [mem |-> M2, to_be_removed |-> to_be_removed]
             ELSE IF M2.d[f].references = <<>>
             THEN flood_traverse(remove_unreferenced(M2, f), sb_uuid,
                                 Tail(flows), to_be_removed)
             ELSE flood_traverse([M2 EXCEPT !.d[f].on_list = TRUE], sb_uuid,
                                 Tail(flows), Append(to_be_removed, f))

\* Second loop: every sb_flow_ref of the flows of 'to_be_removed' leaves the
\* flow_list of its sb_to_flow.
RECURSIVE flood_detach(_, _)
flood_detach(M, to_be_removed) ==
    IF ~M.ok \/ to_be_removed = <<>> THEN M
    ELSE LET f == Head(to_be_removed)
             M1 == ovs_assert(M, M.d[f].references # <<>>)
             M2 == [M1 EXCEPT !.u =
                      [s \in DOMAIN @ |->
                          ovs_list_remove_n(@[s], f,
                                            Count(M.d[f].references, s))]]
         IN  flood_detach(M2, Tail(to_be_removed))

RECURSIVE flood_remove_flows_for_sb_uuid(_, _)
RECURSIVE flood_references(_, _, _)
RECURSIVE flood_to_be_removed(_, _)

\* Inner loop of the third loop: every other sb_uuid that references 'f' is
\* added to the nodes and flood-removed, unless it is a node already; its
\* sb_flow_ref, the head of f->references, is freed.
flood_references(M, f, refs) ==
    IF ~M.ok \/ refs = <<>> THEN M
    ELSE LET s == Head(refs)
             M1 == IF ~flood_remove_find_node(M.nodes, s)
                   THEN flood_remove_flows_for_sb_uuid(
                            [M EXCEPT !.nodes =
                                ofctrl_flood_remove_add_node(@, s)], s)
                   ELSE M
         IN  IF ~M1.ok THEN M1
             ELSE flood_references([M1 EXCEPT !.d[f].references = Tail(@)],
                                   f, Tail(refs))

\* Third loop: the flows of 'to_be_removed' are destroyed one by one.
flood_to_be_removed(M, to_be_removed) ==
    IF ~M.ok \/ to_be_removed = <<>> THEN M
    ELSE LET f == Head(to_be_removed)
             M1 == flood_references(M, f, M.d[f].references)
         IN  IF ~M1.ok THEN M1
             ELSE flood_to_be_removed(
                      remove_unreferenced([M1 EXCEPT !.d[f].on_list = FALSE], f),
                      Tail(to_be_removed))

\* flood_remove_flows_for_sb_uuid().
flood_remove_flows_for_sb_uuid(M, sb_uuid) ==
    IF sb_uuid \notin DOMAIN M.u THEN M
    ELSE LET r == flood_traverse([M EXCEPT !.visited = Append(@, sb_uuid)],
                                 sb_uuid, M.u[sb_uuid], <<>>)
         IN  IF ~r.mem.ok THEN r.mem
             ELSE flood_to_be_removed(
                      flood_detach([r.mem EXCEPT !.u = sb_to_flow_remove(@, sb_uuid)],
                                   r.to_be_removed),
                      r.to_be_removed)

\* The HMAP_FOR_EACH of ofctrl_flood_remove_flows() over the nodes, those
\* added on the way included.
RECURSIVE flood_each_node(_, _)
flood_each_node(M, n) ==
    IF ~M.ok \/ n > Len(M.nodes) THEN M
    ELSE flood_each_node(flood_remove_flows_for_sb_uuid(M, M.nodes[n]), n + 1)

\* The second HMAP_FOR_EACH of ofctrl_flood_remove_flows(): what the nodes
\* desire leaves extend table 'table'.
RECURSIVE flood_extend_table(_, _)
flood_extend_table(table, nodes) ==
    IF nodes = <<>> THEN table
    ELSE flood_extend_table(ovn_extend_table_remove_desired(table, Head(nodes)),
                            Tail(nodes))

\* ofctrl_flood_remove_flows().
ofctrl_flood_remove_flows(M) ==
    LET M1 == flood_each_node(M, 1)
    IN  IF ~M1.ok THEN M1
        ELSE [M1 EXCEPT !.groups = flood_extend_table(@, M1.nodes),
                        !.meters = flood_extend_table(@, M1.nodes)]

(* ----------------------------- the connection -------------------------- *)

\* The first of the tunnel metadata field ids, MFF_TUN_METADATA0; 0 is no
\* field.
MFF_TUN_METADATA0 == 1

\* The number of tunnel metadata fields.
TUN_METADATA_NUM_OPTS == 64

\* The bound of the loop of ofctrl_run().
MaxIterations == 50

\* An OpenFlow packet: the type and the xid of its header, and its body.
\* 'nb_cfg' is not on the wire: on the barrier request of ofctrl_put() it
\* keeps the nb_cfg the batch before the barrier was made for, and it is -1
\* on any other packet.
OfMsg(type, xid_, body) ==
    [type |-> type, xid |-> xid_, body |-> body, nb_cfg |-> -1]

\* The xids of a sequence of packets.
XidsOf(msgs) == {msgs[n].xid : n \in 1..Len(msgs)}

\* The xids some party still holds.
LiveXids(M) ==
    {M.xid, M.xid2} \cup XidsOf(M.txq) \cup XidsOf(M.sw_pending)
    \cup XidsOf(M.rx) \cup XidsOf(M.flow_updates)
    \cup {M.pending_ct_zones[z].of_xid : z \in DOMAIN M.pending_ct_zones}

\* The xid of a new request: one that nobody holds, and not 0.
alloc_xid(M) ==
    CHOOSE x \in 1..(Cardinality(LiveXids(M)) + 1) :
        /\ x \notin LiveXids(M)
        /\ \A y \in 1..(x - 1) : y \in LiveXids(M)

\* queue_msg(): rconn_send() puts the packet on the connection's queue and
\* counts it in tx_counter.
queue_msg(M, msg) == [M EXCEPT !.txq = Append(@, msg)]

\* rconn_packet_counter_n_packets(tx_counter).
tx_counter(M) == Len(M.txq)

\* rconn_get_version(swconn): negative unless the connection is up.
rconn_get_version(M) == IF M.connected THEN 4 ELSE -1

\* A run_S_NEW() that sends the request and stays in S_NEW.
run_S_NEW_stay(M) ==
    LET x == alloc_xid(M)
    IN  [queue_msg(M, OfMsg("NXT_TLV_TABLE_REQUEST", x, <<>>)) EXCEPT
           !.xid = x]

\* run_S_NEW().
run_S_NEW(M) ==
    LET x == alloc_xid(M)
    IN  [queue_msg(M, OfMsg("NXT_TLV_TABLE_REQUEST", x, <<>>)) EXCEPT
           !.xid = x, !.state = "S_TLV_TABLE_REQUESTED"]

\* recv_S_NEW(): OVS_NOT_REACHED().
recv_S_NEW(M, oh) == [M EXCEPT !.ok = FALSE]

\* ofctrl_recv(): an echo request is answered, anything else is logged.
ofctrl_recv(M, oh) ==
    IF oh.type = "OFPT_ECHO_REQUEST"
    THEN queue_msg(M, OfMsg("OFPT_ECHO_REPLY", oh.xid, <<>>))
    ELSE M

\* The loop of process_tlv_table_reply() over the mappings: the index of our
\* option when it is mapped, and the indexes left free by the mappings that
\* come before it.  A mapping is our option or not, and has an index.
tlv_mappings_scan(mappings, md_free) ==
    LET ours == {n \in 1..Len(mappings) : mappings[n].ours}
        first == IF ours = {} THEN Len(mappings) + 1
                 ELSE CHOOSE n \in ours : \A m \in ours : n <= m
        before == {mappings[n].index : n \in 1..(first - 1)}
    IN  [found |-> ours # {},
         index |-> IF ours = {} THEN 0 ELSE mappings[first].index,
         md_free |-> md_free \ before]

\* A rightmost_1bit_idx() that yields the highest bit set.
rightmost_1bit_idx_highest(md_free) ==
    CHOOSE x \in md_free : \A y \in md_free : x >= y

\* rightmost_1bit_idx(): the lowest index of the set.
rightmost_1bit_idx(md_free) == CHOOSE x \in md_free : \A y \in md_free : x <= y

\* process_tlv_table_reply(): the memory, and whether the reply was of use.
process_tlv_table_reply(M, mappings) ==
    LET scan == tlv_mappings_scan(mappings, 0..(TUN_METADATA_NUM_OPTS - 1))
    IN  IF scan.found
        THEN IF scan.index >= TUN_METADATA_NUM_OPTS
             THEN [mem |-> M, ok |-> FALSE]
             ELSE [mem |-> [M EXCEPT
                              !.mff_ovn_geneve = MFF_TUN_METADATA0 + scan.index,
                              !.state = "S_CLEAR_FLOWS"],
                   ok |-> TRUE]
        ELSE IF scan.md_free = {} THEN [mem |-> M, ok |-> FALSE]
        ELSE LET index == rightmost_1bit_idx(scan.md_free)
                 x == alloc_xid(M)
                 M1 == [queue_msg(M, OfMsg("NXT_TLV_TABLE_MOD", x, <<index>>))
                          EXCEPT !.xid = x,
                                 !.mff_ovn_geneve = MFF_TUN_METADATA0 + index]
                 x2 == alloc_xid(M1)
             IN  [mem |-> [queue_msg(M1, OfMsg("OFPT_BARRIER_REQUEST", x2, <<>>))
                             EXCEPT !.xid2 = x2,
                                    !.state = "S_TLV_TABLE_MOD_SENT"],
                  ok |-> TRUE]

\* A recv_S_TLV_TABLE_REQUESTED() whose error path leaves the field as it is.
recv_S_TLV_TABLE_REQUESTED_state(M, oh) ==
    LET error == [M EXCEPT !.state = "S_CLEAR_FLOWS"]
    IN  IF oh.xid # M.xid THEN ofctrl_recv(M, oh)
        ELSE IF oh.type = "NXT_TLV_TABLE_REPLY" /\ oh.body[1]
        THEN LET r == process_tlv_table_reply(M, oh.body[2])
             IN  IF r.ok THEN r.mem ELSE error
        ELSE error

\* recv_S_TLV_TABLE_REQUESTED().  The body of a TLV table reply says whether
\* it decodes, and gives the mappings.
recv_S_TLV_TABLE_REQUESTED(M, oh) ==
    LET error == [M EXCEPT !.mff_ovn_geneve = 0, !.state = "S_CLEAR_FLOWS"]
    IN  IF oh.xid # M.xid THEN ofctrl_recv(M, oh)
        ELSE IF oh.type = "NXT_TLV_TABLE_REPLY" /\ oh.body[1]
        THEN LET r == process_tlv_table_reply(M, oh.body[2])
             IN  IF r.ok THEN r.mem ELSE error
        ELSE error

\* A recv_S_TLV_TABLE_MOD_SENT() that gives the field up whatever packet
\* has one of the two xids.
recv_S_TLV_TABLE_MOD_SENT_disable(M, oh) ==
    IF oh.xid # M.xid /\ oh.xid # M.xid2 THEN ofctrl_recv(M, oh)
    ELSE [M EXCEPT !.state = "S_CLEAR_FLOWS", !.mff_ovn_geneve = 0]

\* A recv_S_TLV_TABLE_MOD_SENT() that does not try again after a race.
recv_S_TLV_TABLE_MOD_SENT_once(M, oh) ==
    IF oh.xid # M.xid /\ oh.xid # M.xid2 THEN ofctrl_recv(M, oh)
    ELSE [M EXCEPT !.state = "S_CLEAR_FLOWS"]

\* A recv_S_TLV_TABLE_MOD_SENT() that starts over whatever the answer is.
recv_S_TLV_TABLE_MOD_SENT_again(M, oh) ==
    IF oh.xid # M.xid /\ oh.xid # M.xid2 THEN ofctrl_recv(M, oh)
    ELSE [M EXCEPT !.state = "S_NEW"]

\* recv_S_TLV_TABLE_MOD_SENT().  The body of an error is its code.
recv_S_TLV_TABLE_MOD_SENT(M, oh) ==
    IF oh.xid # M.xid /\ oh.xid # M.xid2 THEN ofctrl_recv(M, oh)
    ELSE IF oh.xid = M.xid2 /\ oh.type = "OFPT_BARRIER_REPLY"
    THEN [M EXCEPT !.state = "S_CLEAR_FLOWS"]
    ELSE IF /\ oh.xid = M.xid
            /\ oh.type = "OFPT_ERROR"
            /\ oh.body[1] \in {"NXTTMFC_ALREADY_MAPPED", "NXTTMFC_DUP_ENTRY"}
    THEN [M EXCEPT !.state = "S_NEW"]
    ELSE [M EXCEPT !.state = "S_CLEAR_FLOWS"]

\* ovn_installed_flow_table_clear(), over the installed flows 'nodes'.
RECURSIVE installed_flow_table_clear_from(_, _)
installed_flow_table_clear_from(M, nodes) ==
    IF ~M.ok \/ nodes = <<>> THEN M
    ELSE LET f == Head(nodes)
             M1 == [M EXCEPT !.h = hmap_remove(@, ovn_flow_match_hash(M.i[f].key), f)]
             M2 == unlink_all_refs_for_installed_flow(M1, f)
             M3 == IF M2.ok THEN installed_flow_destroy(M2, f) ELSE M2
         IN  installed_flow_table_clear_from(M3, Tail(nodes))

\* An ovn_installed_flow_table_clear() that leaves the installed flows.
ovn_installed_flow_table_clear_none(M) == M

ovn_installed_flow_table_clear(M) ==
    installed_flow_table_clear_from(M, hmap_nodes(M.h))

\* A run_S_CLEAR_FLOWS() that leaves need_reinstall_flows as it is.
run_S_CLEAR_FLOWS_only(M) ==
    LET M2 == queue_msg(M, OfMsg("OFPT_FLOW_MOD", 0, <<"OFPFC_DELETE", 0, <<>>, 0>>))
        M3 == queue_msg(M2, OfMsg("OFPT_GROUP_MOD", 0, <<"OFPGC11_DELETE", 0>>))
        M4 == ovn_installed_flow_table_clear(M3)
        M5 == [M4 EXCEPT !.groups = ovn_extend_table_clear(@)]
        M6 == queue_msg(M5, OfMsg("OFPT_METER_MOD", 0, <<"OFPMC13_DELETE", 0>>))
    IN  [M6 EXCEPT !.meters = ovn_extend_table_clear(@),
                   !.flow_updates = <<>>,
                   !.state = "S_UPDATE_FLOWS"]

\* run_S_CLEAR_FLOWS().
run_S_CLEAR_FLOWS(M) ==
    LET M1 == [M EXCEPT !.need_reinstall_flows = TRUE]
        M2 == queue_msg(M1, OfMsg("OFPT_FLOW_MOD", 0, <<"OFPFC_DELETE", 0, <<>>, 0>>))
        M3 == queue_msg(M2, OfMsg("OFPT_GROUP_MOD", 0, <<"OFPGC11_DELETE", 0>>))
        M4 == ovn_installed_flow_table_clear(M3)
        M5 == [M4 EXCEPT !.groups = ovn_extend_table_clear(@)]
        M6 == queue_msg(M5, OfMsg("OFPT_METER_MOD", 0, <<"OFPMC13_DELETE", 0>>))
    IN  [M6 EXCEPT !.meters = ovn_extend_table_clear(@),
                   !.flow_updates = <<>>,
                   !.state = "S_UPDATE_FLOWS"]

\* A ct_zones_flushed() that takes every sent flush as done.
ct_zones_flushed_any(zones, xid_) ==
    [z \in DOMAIN zones |->
        IF zones[z].state = "CT_ZONE_OF_SENT"
        THEN [zones[z] EXCEPT !.state = "CT_ZONE_DB_QUEUED"]
        ELSE zones[z]]

\* The SHASH_FOR_EACH of recv_S_UPDATE_FLOWS(): a conntrack flush sent with
\* the barrier 'xid_' succeeded.
ct_zones_flushed(zones, xid_) ==
    [z \in DOMAIN zones |->
        IF zones[z].state = "CT_ZONE_OF_SENT" /\ zones[z].of_xid = xid_
        THEN [zones[z] EXCEPT !.state = "CT_ZONE_DB_QUEUED"]
        ELSE zones[z]]

\* A recv_S_UPDATE_FLOWS() that starts over on an error of the switch.
recv_S_UPDATE_FLOWS_restart(M, oh) ==
    IF oh.type = "OFPT_ERROR" THEN [M EXCEPT !.state = "S_NEW"]
    ELSE IF oh.type = "OFPT_BARRIER_REPLY" /\ M.flow_updates # <<>>
    THEN [(IF Head(M.flow_updates).xid = oh.xid
           THEN [M EXCEPT
                   !.cur_cfg = IF Head(M.flow_updates).nb_cfg >= @
                               THEN Head(M.flow_updates).nb_cfg ELSE @,
                   !.flow_updates = Tail(@)]
           ELSE M)
            EXCEPT !.pending_ct_zones = ct_zones_flushed(@, oh.xid)]
    ELSE ofctrl_recv(M, oh)

\* A recv_S_UPDATE_FLOWS() that takes the nb_cfg of the flow update whatever
\* cur_cfg is.
recv_S_UPDATE_FLOWS_latest(M, oh) ==
    IF oh.type = "OFPT_BARRIER_REPLY" /\ M.flow_updates # <<>>
    THEN [(IF Head(M.flow_updates).xid = oh.xid
           THEN [M EXCEPT !.cur_cfg = Head(M.flow_updates).nb_cfg,
                          !.flow_updates = Tail(@)]
           ELSE M)
            EXCEPT !.pending_ct_zones = ct_zones_flushed(@, oh.xid)]
    ELSE ofctrl_recv(M, oh)

\* A recv_S_UPDATE_FLOWS() that removes a flow update only when it raises
\* cur_cfg.
recv_S_UPDATE_FLOWS_raising(M, oh) ==
    IF oh.type = "OFPT_BARRIER_REPLY" /\ M.flow_updates # <<>>
    THEN [(IF Head(M.flow_updates).xid = oh.xid
              /\ Head(M.flow_updates).nb_cfg > M.cur_cfg
           THEN [M EXCEPT !.cur_cfg = Head(M.flow_updates).nb_cfg,
                          !.flow_updates = Tail(@)]
           ELSE M)
            EXCEPT !.pending_ct_zones = ct_zones_flushed(@, oh.xid)]
    ELSE ofctrl_recv(M, oh)

\* recv_S_UPDATE_FLOWS().
recv_S_UPDATE_FLOWS(M, oh) ==
    IF oh.type = "OFPT_BARRIER_REPLY" /\ M.flow_updates # <<>>
    THEN LET fup == Head(M.flow_updates)
             M1 == IF fup.xid = oh.xid
                   THEN [M EXCEPT
                           !.cur_cfg = IF fup.nb_cfg >= @ THEN fup.nb_cfg ELSE @,
                           !.flow_updates = Tail(@)]
                   ELSE M
         IN  [M1 EXCEPT !.pending_ct_zones = ct_zones_flushed(@, oh.xid)]
    ELSE ofctrl_recv(M, oh)

\* The requests of 'msgs' that the switch answers.
Answered(msgs) ==
    SelectSeq(msgs, LAMBDA m : m.type \in {"NXT_TLV_TABLE_REQUEST",
                                           "NXT_TLV_TABLE_MOD",
                                           "OFPT_BARRIER_REQUEST"})

\* The requests the switch holds once rconn_run() has sent the queued
\* packets, which it does when 'drained'.
rconn_sent(M, drained) ==
    M.sw_pending \o (IF drained THEN Answered(M.txq) ELSE <<>>)

\* rconn_run(): what the connection did since the last call.  With 'event'
\* "up" it came up, anew when it was up before; with "down" it went down;
\* either way the packets of the old connection are lost.  Otherwise it
\* sends the queued packets if 'drained', and has received the packets
\* 'inbox', the switch's answers to the first 'served' requests it holds.
rconn_run(M, event, drained, served, inbox) ==
    IF event = "up"
    THEN [M EXCEPT !.connected = TRUE, !.connection_seqno = @ + 1,
                   !.txq = <<>>, !.sw_pending = <<>>, !.rx = <<>>]
    ELSE IF event = "down"
    THEN [M EXCEPT !.connected = FALSE,
                   !.txq = <<>>, !.sw_pending = <<>>, !.rx = <<>>]
    ELSE [M EXCEPT
            !.txq = IF drained THEN <<>> ELSE @,
            !.sw_pending = SubSeq(rconn_sent(M, drained), served + 1,
                                  Len(rconn_sent(M, drained))),
            !.rx = @ \o inbox]

\* An ofctrl_run() that leaves the sent conntrack flushes as sent.
ct_zones_requeued_none(zones) == zones

\* The SHASH_FOR_EACH of ofctrl_run(): the conntrack flushes that were sent
\* are queued again.
ct_zones_requeued(zones) ==
    [z \in DOMAIN zones |->
        IF zones[z].state = "CT_ZONE_OF_SENT"
        THEN [zones[z] EXCEPT !.state = "CT_ZONE_OF_QUEUED"]
        ELSE zones[z]]

\* The run_<STATE>() of the state.
run_STATE(M) ==
    CASE M.state = "S_NEW" -> run_S_NEW(M)
      [] M.state = "S_CLEAR_FLOWS" -> run_S_CLEAR_FLOWS(M)
      [] OTHER -> M

\* The recv_<STATE>() of the state.
recv_STATE(M, oh) ==
    CASE M.state = "S_NEW" -> recv_S_NEW(M, oh)
      [] M.state = "S_TLV_TABLE_REQUESTED" -> recv_S_TLV_TABLE_REQUESTED(M, oh)
      [] M.state = "S_TLV_TABLE_MOD_SENT" -> recv_S_TLV_TABLE_MOD_SENT(M, oh)
      [] M.state = "S_CLEAR_FLOWS" -> ofctrl_recv(M, oh)
      [] M.state = "S_UPDATE_FLOWS" -> recv_S_UPDATE_FLOWS(M, oh)

\* The record of a packet received while the TLV table is negotiated or in
\* S_UPDATE_FLOWS: the state, the xids, the field, the flow updates, cur_cfg
\* and the pending zones before the recv_<STATE>() of memory 'M1', the
\* packet, and what the memory 'M2' it left has of these and what it queued.
tlv_handled(M1, M2) ==
    IF M1.state \in {"S_TLV_TABLE_REQUESTED", "S_TLV_TABLE_MOD_SENT",
                     "S_UPDATE_FLOWS"}
    THEN [M2 EXCEPT !.handled =
             Append(@, [state |-> M1.state, xid |-> M1.xid, xid2 |-> M1.xid2,
                        oh |-> Head(M1.rx), field |-> M1.mff_ovn_geneve,
                        next_state |-> M2.state,
                        next_field |-> M2.mff_ovn_geneve,
                        next_xid |-> M2.xid, next_xid2 |-> M2.xid2,
                        sent |-> SubSeq(M2.txq, Len(M1.txq) + 1,
                                        Len(M2.txq)),
                        flow_updates |-> M1.flow_updates,
                        cur_cfg |-> M1.cur_cfg,
                        zones |-> M1.pending_ct_zones,
                        next_flow_updates |-> M2.flow_updates,
                        next_cur_cfg |-> M2.cur_cfg,
                        next_zones |-> M2.pending_ct_zones])]
    ELSE M2

\* The loop of ofctrl_run(), from iteration 'i' on.
RECURSIVE ofctrl_run_loop(_, _, _)

\* The loop's rconn_recv() and recv_STATE() on M1, the state run_STATE() left.
run_loop_recv(M1) ==
    IF M1.rx # <<>> /\ M1.ok
    THEN tlv_handled(M1, recv_STATE([M1 EXCEPT !.rx = Tail(@)], Head(M1.rx)))
    ELSE M1

\* The loop goes on from M2 when the state changed from 'old_state' or a
\* packet was received ('msg').
run_loop_next(M2, i, old_state, msg) ==
    ofctrl_run_loop(M2, i + 1, old_state # M2.state \/ msg)

\* One iteration of the loop, M1 being the state run_STATE() left.
run_loop_step(M1, i, old_state) ==
    run_loop_next(run_loop_recv(M1), i, old_state, M1.rx # <<>>)

\* A loop of ofctrl_run() that never calls poll_immediate_wake().
ofctrl_run_loop_quiet(M, i, progress) ==
    IF ~M.ok \/ ~progress \/ i >= MaxIterations
    THEN [M EXCEPT !.iterations = i]
    ELSE run_loop_step(run_STATE(M), i, M.state)

\* The loop ends after MaxIterations iterations or when one made no
\* progress; poll_immediate_wake() is called when the last one made some.
ofctrl_run_loop(M, i, progress) ==
    IF ~M.ok \/ ~progress \/ i >= MaxIterations
    THEN [M EXCEPT !.iterations = i, !.wake = progress]
    ELSE run_loop_step(run_STATE(M), i, M.state)

\* ofctrl_run() when the connection sequence number changed: the state
\* machine starts over and the sent zone flushes are queued again.
ofctrl_run_seqno(M1) ==
    IF M1.seqno # M1.connection_seqno
    THEN [M1 EXCEPT !.seqno = M1.connection_seqno,
                    !.state = "S_NEW",
                    !.pending_ct_zones = ct_zones_requeued(@)]
    ELSE M1

\* The loop of ofctrl_run() entered in state M2.
ofctrl_run_enter(M2) == ofctrl_run_loop([M2 EXCEPT !.entry = M2.state], 0, TRUE)

\* ofctrl_run() after rconn_run() left M1.
ofctrl_run_connected(M1) ==
    IF ~M1.connected THEN M1 ELSE ofctrl_run_enter(ofctrl_run_seqno(M1))

\* ofctrl_run().
ofctrl_run(M, event, drained, served, inbox) ==
    ofctrl_run_connected(rconn_run(M, event, drained, served, inbox))

\* An ofctrl_get_mf_field_id() that looks at the connection alone.
ofctrl_get_mf_field_id_connected(M) ==
    IF ~M.connected THEN 0 ELSE M.mff_ovn_geneve

\* ofctrl_get_mf_field_id().
ofctrl_get_mf_field_id(M) ==
    IF ~M.connected THEN 0
    ELSE IF M.state \in {"S_CLEAR_FLOWS", "S_UPDATE_FLOWS"}
    THEN M.mff_ovn_geneve
    ELSE 0

(* ------------------------------ ofctrl_put ----------------------------- *)

\* Addresses of struct installed_flow objects.
InstalledIds == 1..NumKeys

\* A flow_mod: its command, the flow key, the actions and the new cookie.
flow_mod(command, key, ofpacts, cookie) ==
    OfMsg("OFPT_FLOW_MOD", 0, <<command, key, ofpacts, cookie>>)

\* add_flow_mod() and its like: the packet joins the list 'msgs' of put.
add_msg(M, msg) == [M EXCEPT !.msgs = Append(@, msg)]

\* installed_flow_add().
installed_flow_add(M, d) ==
    add_msg(M, flow_mod("OFPFC_ADD", M.d[d].key, M.d[d].ofpacts, M.d[d].cookie))

\* An installed_flow_mod() that leaves the installed cookie as it is.
installed_flow_mod_actions(M, i, d) ==
    [add_msg(M, flow_mod("OFPFC_MODIFY_STRICT", M.i[i].key, M.d[d].ofpacts, 0))
       EXCEPT !.i[i].ofpacts = M.d[d].ofpacts]

\* An installed_flow_mod() that sends OFPFC_MODIFY_STRICT whether the
\* cookie changed or not.
installed_flow_mod_strict(M, i, d) ==
    [add_msg(M, flow_mod("OFPFC_MODIFY_STRICT", M.i[i].key, M.d[d].ofpacts, 0))
       EXCEPT !.i[i].ofpacts = M.d[d].ofpacts,
              !.i[i].cookie = M.d[d].cookie]

\* installed_flow_mod(): OFPFC_ADD with the new cookie when the cookie
\* changed; 'i' takes the actions and the cookie of 'd'.
installed_flow_mod(M, i, d) ==
    LET fm == IF M.i[i].cookie # M.d[d].cookie
              THEN flow_mod("OFPFC_ADD", M.i[i].key, M.d[d].ofpacts,
                            M.d[d].cookie)
              ELSE flow_mod("OFPFC_MODIFY_STRICT", M.i[i].key, M.d[d].ofpacts, 0)
    IN  [add_msg(M, fm) EXCEPT !.i[i].ofpacts = M.d[d].ofpacts,
                               !.i[i].cookie = M.d[d].cookie]

\* installed_flow_del().
installed_flow_del(M, i) ==
    add_msg(M, flow_mod("OFPFC_DELETE_STRICT", M.i[i].key, <<>>, 0))

\* installed_flow_dup().
installed_flow_dup(M, d) ==
    [key |-> M.d[d].key, ofpacts |-> M.d[d].ofpacts, cookie |-> M.d[d].cookie,
     desired_refs |-> <<>>, desired_flow |-> NULL]

\* An ofctrl_can_put() that looks at the state alone.
ofctrl_can_put_state(M) == M.state = "S_UPDATE_FLOWS"

\* ofctrl_can_put().
ofctrl_can_put(M) ==
    ~(\/ M.state # "S_UPDATE_FLOWS"
      \/ tx_counter(M) # 0
      \/ rconn_get_version(M) < 0)

\* The first SHASH_FOR_EACH of ofctrl_put(): a flush for every queued zone,
\* in the order 'zones' of the shash.
RECURSIVE put_ct_zones(_, _)
put_ct_zones(M, zones) ==
    IF zones = <<>> THEN M
    ELSE LET z == Head(zones)
         IN  IF M.pending_ct_zones[z].state = "CT_ZONE_OF_QUEUED"
             THEN put_ct_zones(
                      [add_msg(M, OfMsg("NXT_CT_FLUSH_ZONE", 0, <<z>>)) EXCEPT
                         !.pending_ct_zones[z].state = "CT_ZONE_OF_SENT",
                         !.pending_ct_zones[z].of_xid = 0],
                      Tail(zones))
             ELSE put_ct_zones(M, Tail(zones))

\* The elements of a set of numbers, in ascending order.
RECURSIVE Ascending(_)
Ascending(S) ==
    IF S = {} THEN <<>>
    ELSE LET x == CHOOSE x \in S : \A y \in S : x <= y
         IN  <<x>> \o Ascending(S \ {x})

\* A group_mod or meter_mod for every table_id of 'ids'.
RECURSIVE put_extend_mods(_, _, _, _)
put_extend_mods(M, type, command, ids) ==
    IF ids = <<>> THEN M
    ELSE put_extend_mods(add_msg(M, OfMsg(type, 0, <<command, Head(ids)>>)),
                         type, command, Tail(ids))

\* One installed flow 'i' of that walk, unlinked already, against the desired
\* flow 'd' found for its key: deleted when there is none, else modified
\* when actions or cookie differ, and linked.
put_installed_flow(M, i, d) ==
    IF d = NULL
    THEN installed_flow_destroy(
             [installed_flow_del(M, i) EXCEPT
                !.h = hmap_remove(@, ovn_flow_match_hash(M.i[i].key), i)],
             i)
    ELSE link_installed_to_desired(
             IF \/ M.i[i].ofpacts # M.d[d].ofpacts
                \/ M.i[i].cookie # M.d[d].cookie
             THEN installed_flow_mod(M, i, d)
             ELSE M,
             i, d)

\* The lookup of the desired flow for the unlinked installed flow 'i'.
put_installed_lookup(M, i) ==
    IF ~M.ok THEN M
    ELSE put_installed_flow(M, i, desired_flow_lookup(M, M.i[i].key, NULL))

\* The HMAP_FOR_EACH_SAFE of ofctrl_put() over the installed flows.
RECURSIVE put_installed(_, _)
put_installed(M, nodes) ==
    IF ~M.ok \/ nodes = <<>> THEN M
    ELSE put_installed(
             put_installed_lookup(
                 unlink_all_refs_for_installed_flow(M, Head(nodes)), Head(nodes)),
             Tail(nodes))

\* The HMAP_FOR_EACH of ofctrl_put() over the desired flows.
RECURSIVE put_desired(_, _)
put_desired(M, nodes) ==
    IF ~M.ok \/ nodes = <<>> THEN M
    ELSE LET d == Head(nodes)
             found == installed_flow_lookup(M, M.d[d].key)
             i == IF found # NULL THEN found ELSE Malloc(M.i, InstalledIds)
             M1 == IF found # NULL THEN M
                   ELSE [installed_flow_add(M, d) EXCEPT
                           !.i = @ @@ (i :> installed_flow_dup(M, d)),
                           !.h = hmap_insert(@, ovn_flow_match_hash(M.d[d].key),
                                             i, FALSE)]
         IN  put_desired(link_installed_to_desired(M1, i, d), Tail(nodes))

\* The deletes of the installed entries of an extend table that nobody
\* desires, and the sync of the table.
put_extend_installed(table) ==
    ovn_extend_table_sync([table EXCEPT !.existing = @ \ extend_table_installed(table)])

\* The LIST_FOR_EACH_REVERSE_SAFE of ofctrl_put() over the flow updates, from
\* the back: the memory with the flow updates, and whether one was found for
\* 'nb_cfg'.
RECURSIVE track_flow_update(_, _, _, _)
track_flow_update(updates, n, nb_cfg, xid_) ==
    IF n = 0 THEN [flow_updates |-> updates, done |-> FALSE]
    ELSE IF nb_cfg < updates[n].nb_cfg
    THEN track_flow_update(SubSeq(updates, 1, n - 1)
                               \o SubSeq(updates, n + 1, Len(updates)),
                           n - 1, nb_cfg, xid_)
    ELSE IF nb_cfg = updates[n].nb_cfg
    THEN [flow_updates |-> [updates EXCEPT ![n].xid = xid_], done |-> TRUE]
    ELSE [flow_updates |-> updates, done |-> FALSE]

\* The SHASH_FOR_EACH of ofctrl_put() after the barrier: the flushes just
\* sent take the barrier's xid.
ct_zones_sent(zones, xid_) ==
    [z \in DOMAIN zones |->
        IF zones[z].state = "CT_ZONE_OF_SENT" /\ zones[z].of_xid = 0
        THEN [zones[z] EXCEPT !.of_xid = xid_]
        ELSE zones[z]]

\* LIST_FOR_EACH_POP with queue_msg().
RECURSIVE queue_msgs(_, _)
queue_msgs(M, msgs) ==
    IF msgs = <<>> THEN M ELSE queue_msgs(queue_msg(M, Head(msgs)), Tail(msgs))

\* The barrier with xid 'xid_' behind the messages of 'M', all of them
\* queued; the flushes and the flow update take the barrier's xid.
put_barrier(M, nb_cfg, xid_) ==
    LET barrier == [OfMsg("OFPT_BARRIER_REQUEST", xid_, <<>>) EXCEPT
                      !.nb_cfg = nb_cfg]
        tracked == track_flow_update(M.flow_updates, Len(M.flow_updates),
                                     nb_cfg, xid_)
    IN  [queue_msgs(M, Append(M.msgs, barrier)) EXCEPT
            !.msgs = Append(M.msgs, barrier),
            !.pending_ct_zones = ct_zones_sent(@, xid_),
            !.flow_updates =
                IF tracked.done THEN tracked.flow_updates
                ELSE Append(tracked.flow_updates,
                            [xid |-> xid_, nb_cfg |-> nb_cfg])]

\* An end of ofctrl_put() that sends a barrier whether or not there are
\* messages before it.
put_track_always(M, nb_cfg) ==
    IF ~M.ok THEN M ELSE put_barrier(M, nb_cfg, alloc_xid(M))

\* An end of ofctrl_put() that takes nb_cfg as reached whenever there is
\* nothing to send.
put_track_direct(M, nb_cfg) ==
    IF ~M.ok THEN M
    ELSE IF M.msgs # <<>>
    THEN put_barrier(M, nb_cfg, alloc_xid(M))
    ELSE [M EXCEPT !.cur_cfg = nb_cfg]

\* The end of ofctrl_put(): messages to send, or none with flow updates in
\* flight, or none at all.
put_track(M, nb_cfg) ==
    IF ~M.ok THEN M
    ELSE IF M.msgs # <<>>
    THEN put_barrier(M, nb_cfg, alloc_xid(M))
    ELSE IF M.flow_updates # <<>>
    THEN [M EXCEPT !.flow_updates[Len(M.flow_updates)].nb_cfg = nb_cfg]
    ELSE [M EXCEPT !.cur_cfg = nb_cfg]

\* The steps of ofctrl_put() in the order of the code, each on the memory the
\* step before it left.
put_begin(M) ==
    [M EXCEPT !.skipped_last_time = FALSE,
              !.need_reinstall_flows = FALSE,
              !.msgs = <<>>,
              !.ran = TRUE]

put_flush_zones(M) == put_ct_zones(M, Ascending(DOMAIN M.pending_ct_zones))

put_groups(M) ==
    put_extend_mods(M, "OFPT_GROUP_MOD", "OFPGC11_ADD",
                    Ascending(extend_table_uninstalled(M.groups)))

put_meters(M) ==
    put_extend_mods(M, "OFPT_METER_MOD", "OFPMC13_ADD",
                    Ascending(extend_table_uninstalled(M.meters)))

put_installed_flows(M) == put_installed(M, hmap_nodes(M.h))

put_desired_flows(M) == put_desired(M, hmap_nodes(M.m))

put_groups_delete(M) ==
    [put_extend_mods(M, "OFPT_GROUP_MOD", "OFPGC11_DELETE",
                     Ascending(extend_table_installed(M.groups)))
       EXCEPT !.groups = put_extend_installed(@)]

put_meters_delete(M) ==
    [put_extend_mods(M, "OFPT_METER_MOD", "OFPMC13_DELETE",
                     Ascending(extend_table_installed(M.meters)))
       EXCEPT !.meters = put_extend_installed(@)]

\* An ofctrl_put() that deletes the stale groups and meters before it walks
\* the flows.
ofctrl_put_update_groups_first(M, nb_cfg) ==
    put_track(
        put_desired_flows(put_installed_flows(
            put_meters_delete(put_groups_delete(
                put_meters(put_groups(put_flush_zones(put_begin(M)))))))),
        nb_cfg)

\* ofctrl_put() from the point where the flow table is to be updated.
ofctrl_put_update(M, nb_cfg) ==
    put_track(
        put_meters_delete(put_groups_delete(
            put_desired_flows(put_installed_flows(
                put_meters(put_groups(put_flush_zones(put_begin(M)))))))),
        nb_cfg)

\* An ofctrl_put() that does not look at skipped_last_time.
ofctrl_put_forgetful(M, nb_cfg, flow_changed) ==
    LET shortcut == /\ ~(flow_changed \/ M.need_reinstall_flows)
                    /\ nb_cfg # M.old_nb_cfg
                    /\ M.cur_cfg = M.old_nb_cfg
        need_put == \/ flow_changed
                    \/ M.need_reinstall_flows
                    \/ (nb_cfg # M.old_nb_cfg /\ M.cur_cfg # M.old_nb_cfg)
        M1 == [M EXCEPT !.cur_cfg = IF shortcut THEN nb_cfg ELSE @,
                        !.old_nb_cfg = nb_cfg,
                        !.msgs = <<>>]
    IN  IF ~need_put THEN M1
        ELSE IF ~ofctrl_can_put(M1) THEN [M1 EXCEPT !.skipped_last_time = TRUE]
        ELSE ofctrl_put_update(M1, nb_cfg)

\* ofctrl_put().
ofctrl_put(M, nb_cfg, flow_changed) ==
    LET shortcut == /\ ~(flow_changed \/ M.skipped_last_time
                                      \/ M.need_reinstall_flows)
                    /\ nb_cfg # M.old_nb_cfg
                    /\ M.cur_cfg = M.old_nb_cfg
        need_put == \/ flow_changed \/ M.skipped_last_time
                    \/ M.need_reinstall_flows
                    \/ (nb_cfg # M.old_nb_cfg /\ M.cur_cfg # M.old_nb_cfg)
        M1 == [M EXCEPT !.cur_cfg = IF shortcut THEN nb_cfg ELSE @,
                        !.old_nb_cfg = nb_cfg,
                        !.msgs = <<>>]
    IN  IF ~need_put THEN M1
        ELSE IF ~ofctrl_can_put(M1) THEN [M1 EXCEPT !.skipped_last_time = TRUE]
        ELSE ofctrl_put_update(M1, nb_cfg)

(* --------------------- the desired table's operations ------------------ *)

\* The tables after a call that left memory 'M'; a failed assertion leaves
\* nothing but the abort.
Commit(M) ==
    IF M.ok
    THEN /\ dflows' = M.d
         /\ match_flow_table' = M.m
         /\ uuid_flow_table' = M.u
         /\ iflows' = M.i
         /\ installed_flows' = M.h
         /\ flood_remove_nodes' = M.nodes
         /\ state' = M.state
         /\ xid' = M.xid
         /\ xid2' = M.xid2
         /\ mff_ovn_geneve' = M.mff_ovn_geneve
         /\ seqno' = M.seqno
         /\ need_reinstall_flows' = M.need_reinstall_flows
         /\ skipped_last_time' = M.skipped_last_time
         /\ old_nb_cfg' = M.old_nb_cfg
         /\ cur_cfg' = M.cur_cfg
         /\ flow_updates' = M.flow_updates
         /\ groups' = M.groups
         /\ meters' = M.meters
         /\ pending_ct_zones' = M.pending_ct_zones
         /\ connected' = M.connected
         /\ connection_seqno' = M.connection_seqno
         /\ txq' = M.txq
         /\ sw_pending' = M.sw_pending
         /\ rx' = M.rx
         /\ aborted' = FALSE
    ELSE /\ aborted' = TRUE
         /\ UNCHANGED <<dflows, match_flow_table, uuid_flow_table, iflows,
                        installed_flows, flood_remove_nodes, state, xid, xid2,
                        mff_ovn_geneve, seqno, need_reinstall_flows,
                        skipped_last_time, old_nb_cfg, cur_cfg, flow_updates,
                        groups, meters, pending_ct_zones, connected,
                        connection_seqno, txq, sw_pending, rx>>

\* The caller's flood-remove nodes live for one ofctrl_flood_remove_flows()
\* call: any other operation finds them destroyed.
NoNodes(M) == [M EXCEPT !.nodes = <<>>]

\* What 'last' records: the operation; for a flood remove the nodes the
\* caller seeded and the sb_uuids whose sb_to_flow was traversed, in order;
\* for ofctrl_run() the state its loop was entered in; for ofctrl_put()
\* its flow_changed and whether it got to update the flow table; for
\* ofctrl_add_flow() whether a desired flow with the key listed the sb_uuid
\* already (a duplicate); for ofctrl_put() whether skipped_last_time was
\* its only reason to update the flow table; for ofctrl_run() the packets
\* it received while the TLV table was negotiated, the number of iterations
\* of its loop and whether it called poll_immediate_wake().
NoOp == [op |-> "init", seeds |-> <<>>, visited |-> <<>>, entry |-> "",
         flow_changed |-> FALSE, ran |-> FALSE, dup |-> FALSE,
         sticky |-> FALSE, handled |-> <<>>, iterations |-> 0,
         wake |-> FALSE]

\* The ofpacts a caller passes: one action.
OneAction == {<<x>> : x \in ActionSet}

\* The nodes a caller seeds, in the order HMAP_FOR_EACH yields them: by
\* hash, which is the sb_uuid itself here. The table's operations treat all
\* sb_uuids alike, so every other order is one of these up to renaming.
SeedSeqs == {s \in UNION {[1..n -> Sources] : n \in 1..NumSources} :
                 \A a, b \in 1..Len(s) : a < b => s[a] < s[b]}

\* ofctrl_add_flow().
AddFlow(key, cookie, actions, sb_uuid, resized) ==
    /\ ~aborted
    /\ \/ Cardinality(DOMAIN dflows) < MaxFlows
       \/ desired_flow_lookup(Mem, key, sb_uuid) # NULL
    /\ Commit(ofctrl_check_and_add_flow(NoNodes(Mem), key, cookie, actions,
                                        sb_uuid, resized))
    /\ resized => desired_flow_lookup(Mem, key, sb_uuid) = NULL
    /\ last' = [NoOp EXCEPT !.op = "add_flow",
                            !.dup = \E f \in DOMAIN dflows :
                                       /\ dflows[f].key = key
                                       /\ sb_uuid \in Range(dflows[f].references)]
    /\ UNCHANGED reconnected

\* ofctrl_add_or_append_flow().
AddOrAppendFlow(key, cookie, actions, sb_uuid, resized) ==
    /\ ~aborted
    /\ LET existing == desired_flow_lookup(Mem, key, NULL)
       IN  IF existing = NULL
           THEN Cardinality(DOMAIN dflows) < MaxFlows
           ELSE Len(dflows[existing].ofpacts) + Len(actions) <= MaxActsLen
    /\ Commit(ofctrl_add_or_append_flow(NoNodes(Mem), key, cookie, actions,
                                        sb_uuid, resized))
    /\ resized => desired_flow_lookup(Mem, key, NULL) = NULL
    /\ last' = [NoOp EXCEPT !.op = "add_or_append_flow"]
    /\ UNCHANGED reconnected

\* ofctrl_remove_flows().
RemoveFlows(sb_uuid) ==
    /\ ~aborted
    /\ Commit(ofctrl_remove_flows(NoNodes(Mem), sb_uuid))
    /\ last' = [NoOp EXCEPT !.op = "remove_flows"]
    /\ UNCHANGED reconnected

\* ofctrl_flood_remove_flows() on the nodes 'seeds' that the caller added
\* with ofctrl_flood_remove_add_node().
FloodRemoveFlows(seeds) ==
    /\ ~aborted
    /\ LET M == ofctrl_flood_remove_flows([Mem EXCEPT !.nodes = seeds])
       IN  /\ Commit(M)
           /\ last' = [NoOp EXCEPT !.op = "flood_remove_flows",
                                   !.seeds = seeds, !.visited = M.visited]
    /\ UNCHANGED reconnected

\* ovn_desired_flow_table_clear().
DesiredClear ==
    /\ ~aborted
    /\ Commit(ovn_desired_flow_table_clear(NoNodes(Mem)))
    /\ last' = [NoOp EXCEPT !.op = "clear"]
    /\ UNCHANGED reconnected

(* ------------------------ the switch and the caller -------------------- *)

\* TLV table mappings a switch may report: none; our option at index 0; our
\* option at an index out of range; another option at index 0; other
\* options at every index.
NoMappings == <<>>

OursMapped == <<[ours |-> TRUE, index |-> 0]>>

OursOutOfRange == <<[ours |-> TRUE, index |-> TUN_METADATA_NUM_OPTS]>>

OtherMapped == <<[ours |-> FALSE, index |-> 0]>>

AllMapped == [n \in 1..TUN_METADATA_NUM_OPTS |-> [ours |-> FALSE, index |-> n - 1]]

\* What the switch may answer to request 'req': nothing or one packet.  A
\* TLV table request gets a reply with one of 'mappings' or an error of
\* 'errors'; a TLV table mod gets nothing or an error of 'errors'; a barrier
\* request gets its reply.
SwitchAnswers(req, mappings, errors) ==
    CASE req.type = "NXT_TLV_TABLE_REQUEST" ->
            {<<OfMsg("NXT_TLV_TABLE_REPLY", req.xid, <<TRUE, mp>>)>> :
                mp \in mappings}
            \cup {<<OfMsg("OFPT_ERROR", req.xid, <<e>>)>> : e \in errors}
      [] req.type = "NXT_TLV_TABLE_MOD" ->
            {<<>>} \cup {<<OfMsg("OFPT_ERROR", req.xid, <<e>>)>> : e \in errors}
      [] OTHER -> {<<OfMsg("OFPT_BARRIER_REPLY", req.xid, <<>>)>>}

\* The packets the switch may have sent in answer to the first 'served'
\* requests of 'requests'.
RECURSIVE Inboxes(_, _, _, _)
Inboxes(requests, served, mappings, errors) ==
    IF served = 0 THEN {<<>>}
    ELSE {a \o rest : a \in SwitchAnswers(Head(requests), mappings, errors),
                      rest \in Inboxes(Tail(requests), served - 1,
                                       mappings, errors)}

\* Largest connection sequence number.
MaxConnections == 2

\* Largest nb_cfg the caller passes.
MaxCfg == 1

\* Largest number of requests the switch holds unanswered.
MaxPending == 2

\* What ofctrl_run() leaves, M being the memory it ends with.
RunCommit(M) ==
    /\ Commit(M)
    /\ last' = [NoOp EXCEPT !.op = "run", !.entry = M.entry,
                            !.handled = M.handled,
                            !.iterations = M.iterations, !.wake = M.wake]
    /\ reconnected' =
          IF M.connected /\ seqno # M.connection_seqno THEN TRUE
          ELSE reconnected

\* ofctrl_run() after the connection did 'event'.
Run(event, drained, served, inbox) ==
    /\ ~aborted
    /\ event = "up" => connection_seqno < MaxConnections
    /\ event = "down" => connected
    /\ event # "stay" \/ ~connected => ~drained /\ served = 0
    /\ drained => txq # <<>> /\ Len(rconn_sent(Mem, TRUE)) <= MaxPending
    /\ RunCommit(ofctrl_run(NoNodes(Mem), event, drained, served, inbox))

\* What ofctrl_put() leaves, M being the memory it ends with.
PutCommit(M, nb_cfg, flow_changed) ==
    /\ Commit(M)
    /\ last' = [NoOp EXCEPT !.op = "put", !.ran = M.ran,
                            !.flow_changed = flow_changed,
                            !.sticky = /\ skipped_last_time
                                       /\ ~flow_changed
                                       /\ ~need_reinstall_flows
                                       /\ nb_cfg = old_nb_cfg]
    /\ reconnected' = IF M.ran THEN FALSE ELSE reconnected

\* ofctrl_put().
Put(nb_cfg, flow_changed) ==
    /\ ~aborted
    /\ PutCommit(ofctrl_put(NoNodes(Mem), nb_cfg, flow_changed),
                 nb_cfg, flow_changed)

\* ofctrl_run() after one of 'events', with a switch that answers the TLV
\* table request with one of 'mappings' or an error of 'errors'.
RunWith(events, mappings, errors) ==
    \E event \in events, drained \in BOOLEAN :
        \E served \in 0..Len(rconn_sent(Mem, drained)) :
            \E inbox \in Inboxes(rconn_sent(Mem, drained), served,
                                 mappings, errors) :
                Run(event, drained, served, inbox)

\* The state after ofctrl_init() and ovn_desired_flow_table_init().
Init ==
    /\ dflows = <<>>
    /\ match_flow_table = [b \in Keys |-> <<>>]
    /\ uuid_flow_table = <<>>
    /\ iflows = <<>>
    /\ installed_flows = [b \in Keys |-> <<>>]
    /\ flood_remove_nodes = <<>>
    /\ state = "S_NEW"
    /\ xid = 0
    /\ xid2 = 0
    /\ mff_ovn_geneve = 0
    /\ seqno = 0
    /\ need_reinstall_flows = FALSE
    /\ skipped_last_time = FALSE
    /\ old_nb_cfg = 0
    /\ cur_cfg = 0
    /\ flow_updates = <<>>
    /\ groups = ExtendTableInit
    /\ meters = ExtendTableInit
    /\ pending_ct_zones = <<>>
    /\ connected = FALSE
    /\ connection_seqno = 0
    /\ txq = <<>>
    /\ sw_pending = <<>>
    /\ rx = <<>>
    /\ reconnected = FALSE
    /\ aborted = FALSE
    /\ last = NoOp

TableNext ==
    \/ \E key \in Keys, actions \in OneAction, sb_uuid \in Sources,
          resized \in BOOLEAN :
          AddFlow(key, 1, actions, sb_uuid, resized)
    \/ \E key \in Keys, actions \in OneAction, sb_uuid \in Sources,
          resized \in BOOLEAN :
          AddOrAppendFlow(key, 1, actions, sb_uuid, resized)
    \/ \E sb_uuid \in Sources : RemoveFlows(sb_uuid)
    \/ \E seeds \in SeedSeqs : FloodRemoveFlows(seeds)
    \/ DesiredClear

SpecTable == Init /\ [][TableNext]_vars

(* ------------------- properties of the desired table ------------------- *)

\* The sb_uuids that reference desired flow 'f' of 'd'.
SourcesOf(d, f) == Range(d[f].references)

\* The transitive closure of the sb_uuids 'S' under "two sb_uuids reference
\* a common desired flow of 'd'".
RECURSIVE SharesClosure(_, _)
SharesClosure(d, S) ==
    LET T == S \cup {s \in Sources : \E f \in DOMAIN d :
                        s \in SourcesOf(d, f) /\ SourcesOf(d, f) \cap S # {}}
    IN  IF T = S THEN S ELSE SharesClosure(d, T)

\* No element occurs twice in sequence 's'.
NoDuplicates(s) == \A a, b \in 1..Len(s) : a # b => s[a] # s[b]

\* C5: after ofctrl_flood_remove_flows() on seed nodes S0 the desired flows
\* that survive are exactly those of before whose sb_uuids are disjoint from
\* the closure of S0 under "reference a common desired flow", and they
\* survive unchanged.
FloodRemoveSurvivors ==
    [][last'.op = "flood_remove_flows" /\ ~aborted'
       => LET closure == SharesClosure(dflows, Range(last'.seeds))
          IN  /\ DOMAIN dflows' =
                   {f \in DOMAIN dflows : SourcesOf(dflows, f) \cap closure = {}}
              /\ \A f \in DOMAIN dflows' : dflows'[f] = dflows[f]
              /\ Range(hmap_nodes(match_flow_table')) = DOMAIN dflows']_vars

\* A flood remove from one seed that reached a second sb_uuid and left a
\* desired flow of a third one in the table.
FloodRemoveSurvivorsWitness ==
    /\ last.op = "flood_remove_flows"
    /\ ~aborted
    /\ Len(last.seeds) = 1
    /\ Len(last.visited) = 2
    /\ DOMAIN dflows # {}

\* C6: when ofctrl_flood_remove_flows() returns, the nodes handed back are
\* the closure of the seeds under "reference a common desired flow", each
\* sb_uuid is a node once, and no sb_uuid was traversed twice.
FloodRemoveNodes ==
    [][last'.op = "flood_remove_flows" /\ ~aborted'
       => /\ Range(flood_remove_nodes') =
                SharesClosure(dflows, Range(last'.seeds))
          /\ NoDuplicates(flood_remove_nodes')
          /\ NoDuplicates(last'.visited)
          /\ Range(last'.visited) =
                SharesClosure(dflows, Range(last'.seeds)) \cap
                DOMAIN uuid_flow_table]_vars

\* A flood remove from one seed that handed back all three sb_uuids and
\* emptied the table.
FloodRemoveNodesWitness ==
    /\ last.op = "flood_remove_flows"
    /\ ~aborted
    /\ Len(last.seeds) = 1
    /\ Len(flood_remove_nodes) = NumSources
    /\ Len(last.visited) = NumSources
    /\ DOMAIN dflows = {}

\* What ofctrl_remove_flows(sb_uuid) leaves of the table of before.
RemoveFlowsPost(sb_uuid) ==
    /\ \A f \in DOMAIN dflows' : sb_uuid \notin SourcesOf(dflows', f)
    /\ sb_uuid \notin DOMAIN uuid_flow_table'
    /\ \A f \in DOMAIN dflows :
          IF SourcesOf(dflows, f) \subseteq {sb_uuid}
          THEN /\ f \notin DOMAIN dflows'
               /\ f \notin Range(hmap_nodes(match_flow_table'))
          ELSE /\ f \in DOMAIN dflows'
               /\ f \in Range(hmap_nodes(match_flow_table'))
               /\ SourcesOf(dflows', f) = SourcesOf(dflows, f) \ {sb_uuid}
               /\ dflows'[f].ofpacts = dflows[f].ofpacts
               /\ dflows'[f].key = dflows[f].key

\* C7: after ofctrl_remove_flows(s) no desired flow lists s and the source
\* index has no entry for s; a desired flow whose only source was s is gone
\* from the match index; a desired flow that had s and other sources remains
\* with exactly the others and with its actions unchanged.
RemoveFlowsContract ==
    [][\A sb_uuid \in Sources :
          last'.op = "remove_flows" /\ RemoveFlows(sb_uuid) /\ ~aborted'
          => RemoveFlowsPost(sb_uuid)]_vars

\* A remove that took one of the two links of a desired flow, built by an
\* append, and left the flow to its other source.
RemoveFlowsWitness ==
    /\ last.op = "remove_flows"
    /\ ~aborted
    /\ Cardinality(DOMAIN uuid_flow_table) = 1
    /\ \E f \in DOMAIN dflows :
          /\ DOMAIN dflows = {f}
          /\ Len(dflows[f].ofpacts) = 2
          /\ Len(dflows[f].references) = 1

\* C8: ofctrl_add_flow(key, a1, s1) and then ofctrl_add_or_append_flow(key,
\* a2, s2), s1 # s2, on an otherwise empty table leave one desired flow for
\* the key, with the actions a1 followed by a2 and the sources {s1, s2}.
AddThenAppend ==
    [][\A key \in Keys, a2 \in OneAction, s2 \in Sources, rs \in BOOLEAN :
          /\ last.op = "add_flow"
          /\ \E f \in DOMAIN dflows :
                /\ DOMAIN dflows = {f}
                /\ dflows[f].key = key
                /\ Len(dflows[f].references) = 1
                /\ s2 \notin SourcesOf(dflows, f)
          /\ last'.op = "add_or_append_flow"
          /\ AddOrAppendFlow(key, 1, a2, s2, rs)
          => \E f \in DOMAIN dflows :
                /\ DOMAIN dflows' = {f}
                /\ hmap_nodes(match_flow_table') = <<f>>
                /\ dflows'[f].key = key
                /\ dflows'[f].ofpacts = dflows[f].ofpacts \o a2
                /\ SourcesOf(dflows', f) = SourcesOf(dflows, f) \cup {s2}
                /\ DOMAIN uuid_flow_table' = SourcesOf(dflows', f)]_vars

\* An append that left a single desired flow with two different actions and
\* two sources.
AddThenAppendWitness ==
    /\ last.op = "add_or_append_flow"
    /\ ~aborted
    /\ \E f \in DOMAIN dflows :
          /\ DOMAIN dflows = {f}
          /\ dflows[f].ofpacts = <<"a", "b">>
          /\ dflows[f].references = <<1, 2>>

\* C9: after any sequence of the desired table's operations, every desired
\* flow is linked from each of its sb_uuids by exactly one sb_flow_ref.
OneLinkPerSource ==
    \A f \in DOMAIN dflows : \A s \in SourcesOf(dflows, f) :
        /\ Count(dflows[f].references, s) = 1
        /\ s \in DOMAIN uuid_flow_table
        /\ Count(uuid_flow_table[s], f) = 1

\* What ofctrl_add_flow(key, .., s2) finds when another source has a desired
\* flow with the key and s2 has none.
AddFlowSecondSource(key, s2) ==
    /\ \E f \in DOMAIN dflows : dflows[f].key = key
    /\ \A f \in DOMAIN dflows :
          dflows[f].key = key => s2 \notin SourcesOf(dflows, f)
    /\ last'.op = "add_flow"
    /\ ~aborted'

\* C10, as the code has it: ofctrl_add_flow() of a key by a source that does
\* not reference a desired flow with the key inserts a desired flow of its
\* own, referenced by that source alone, and leaves the flows of the other
\* sources as they are.
AddFlowOwnEntry ==
    [][\A key \in Keys, a \in OneAction, s2 \in Sources, rs \in BOOLEAN :
          AddFlowSecondSource(key, s2) /\ AddFlow(key, 1, a, s2, rs)
          => /\ \E g \in DOMAIN dflows' \ DOMAIN dflows :
                   /\ dflows'[g].key = key
                   /\ dflows'[g].ofpacts = a
                   /\ dflows'[g].references = <<s2>>
                   /\ DOMAIN dflows' = DOMAIN dflows \cup {g}
             /\ \A f \in DOMAIN dflows : dflows'[f] = dflows[f]]_vars

\* Two desired flows with one key, each referenced by its own source.
AddFlowOwnEntryWitness ==
    /\ last.op = "add_flow"
    /\ ~aborted
    /\ \E f, g \in DOMAIN dflows :
          /\ f # g
          /\ dflows[f].key = dflows[g].key
          /\ SourcesOf(dflows, f) \cap SourcesOf(dflows, g) = {}

\* C10, as stated: ofctrl_add_flow() of one key by two sources leaves one
\* desired flow with the key, whose sources contain both.
AddFlowSharesEntry ==
    [][\A key \in Keys, a \in OneAction, s2 \in Sources, rs \in BOOLEAN :
          AddFlowSecondSource(key, s2) /\ AddFlow(key, 1, a, s2, rs)
          => \E f \in DOMAIN dflows' :
                /\ \A g \in DOMAIN dflows' : dflows'[g].key = key => g = f
                /\ dflows'[f].key = key
                /\ s2 \in SourcesOf(dflows', f)
                /\ Cardinality(SourcesOf(dflows', f)) >= 2]_vars

\* ofctrl_run() after one of 'events', with a connection that sends what
\* is queued and a switch that answers at once, our option mapped.
RunPrompt(events) ==
    \E event \in events :
        LET drained == event = "stay" /\ connected /\ txq # <<>>
            served == IF event = "stay" /\ connected
                      THEN Len(rconn_sent(Mem, drained)) ELSE 0
        IN  \E inbox \in Inboxes(rconn_sent(Mem, drained), served,
                                 {OursMapped}, {}) :
                Run(event, drained, served, inbox)

\* The main loop of the caller: ofctrl_run(), changes of the desired flows,
\* ofctrl_put(), and ofctrl_run() again.
CallerTurn == last.op # "put"

\* The flow table of the switch kept up to date by ofctrl_put() while the
\* desired flows change, on a connection that comes up and stays.
PutNext ==
    \/ /\ CallerTurn
       /\ \E key \in Keys, cookie \in 1..2, actions \in OneAction,
             sb_uuid \in 1..2 :
             AddFlow(key, cookie, actions, sb_uuid, FALSE)
    \/ CallerTurn /\ \E sb_uuid \in 1..2 : RemoveFlows(sb_uuid)
    \/ connection_seqno = 0 /\ RunPrompt({"up"})
    \/ RunPrompt({"stay"})
    \/ CallerTurn /\ \E flow_changed \in BOOLEAN : Put(0, flow_changed)

SpecPut == Init /\ [][PutNext]_vars

\* The installed flow table mirrors the desired one: the same keys, one
\* installed flow a key, each with the actions and the cookie of the desired
\* flow it has as its desired_flow.
InstalledMirrorsDesired ==
    /\ {iflows[i].key : i \in DOMAIN iflows} =
          {dflows[f].key : f \in DOMAIN dflows}
    /\ Range(hmap_nodes(installed_flows)) = DOMAIN iflows
    /\ \A i, j \in DOMAIN iflows : iflows[i].key = iflows[j].key => i = j
    /\ \A i \in DOMAIN iflows :
          /\ iflows[i].desired_flow \in DOMAIN dflows
          /\ dflows[iflows[i].desired_flow].key = iflows[i].key
          /\ dflows[iflows[i].desired_flow].ofpacts = iflows[i].ofpacts
          /\ dflows[iflows[i].desired_flow].cookie = iflows[i].cookie

\* C1: after an ofctrl_put() with flow_changed that found ofctrl_can_put()
\* true, the installed flow table has the keys of the desired flow table,
\* and every installed flow has the actions and the cookie of its primary
\* desired flow.
PutInstallsDesired ==
    [][\A nb_cfg \in 0..MaxCfg :
          /\ last'.op = "put"
          /\ ofctrl_can_put(Mem)
          /\ Put(nb_cfg, TRUE)
          /\ ~aborted'
          => InstalledMirrorsDesired']_vars

\* An ofctrl_put() left an installed flow with two desired flows, the
\* second with other actions than the installed ones, and an installed flow
\* with the second cookie.
PutInstallsDesiredWitness ==
    /\ last.op = "put"
    /\ last.ran
    /\ ~aborted
    /\ \E i \in DOMAIN iflows : \E f \in DOMAIN dflows :
          /\ dflows[f].installed_flow = i
          /\ iflows[i].desired_flow # f
          /\ dflows[f].ofpacts # iflows[i].ofpacts
          /\ iflows[i].cookie = 2

\* The flow table of the switch kept up to date by ofctrl_put() while the
\* desired flows change and the connection comes and goes.
ReconnectNext ==
    \/ /\ CallerTurn
       /\ \E key \in Keys, sb_uuid \in 1..2 :
             AddFlow(key, 1, <<"a">>, sb_uuid, FALSE)
    \/ CallerTurn /\ \E sb_uuid \in 1..2 : RemoveFlows(sb_uuid)
    \/ RunPrompt({"stay", "up", "down"})
    \/ CallerTurn /\ \E flow_changed \in BOOLEAN : Put(0, flow_changed)

SpecReconnect == Init /\ [][ReconnectNext]_vars

\* The keys of the OFPFC_ADD flow_mods of the packets 'msgs', in order.
AddedKeys(msgs) ==
    LET adds == SelectSeq(msgs, LAMBDA m : /\ m.type = "OFPT_FLOW_MOD"
                                           /\ m.body[1] = "OFPFC_ADD")
    IN  [n \in 1..Len(adds) |-> adds[n].body[2]]

\* C4: an ofctrl_run() that finds the connection sequence number changed,
\* the connection up, enters its loop in S_NEW; and the first ofctrl_put()
\* after it that finds ofctrl_can_put() true sends one flow add for every
\* key of the desired flow table, whatever its flow_changed and nb_cfg.
ReconnectReinstalls ==
    [][/\ (/\ last'.op = "run"
           /\ connected'
           /\ connection_seqno' # connection_seqno
           => last'.entry = "S_NEW" /\ reconnected')
       /\ \A nb_cfg \in 0..MaxCfg, flow_changed \in BOOLEAN :
             /\ last'.op = "put"
             /\ reconnected
             /\ ofctrl_can_put(Mem)
             /\ Put(nb_cfg, flow_changed)
             /\ ~aborted'
             => /\ last'.ran
                /\ Range(AddedKeys(txq')) =
                      {dflows[f].key : f \in DOMAIN dflows}
                /\ NoDuplicates(AddedKeys(txq'))]_vars

\* An ofctrl_put() after the second connection came up, called with
\* flow_changed false, sent one add for the key that two desired flows have.
ReconnectReinstallsWitness ==
    /\ last.op = "put"
    /\ last.ran
    /\ ~last.flow_changed
    /\ ~aborted
    /\ connection_seqno = 2
    /\ Len(AddedKeys(txq)) = 1
    /\ Cardinality(DOMAIN dflows) = 2

\* One desired flow that comes and goes, the nb_cfg of the caller going up
\* and down, a connection that comes up and stays but may keep packets
\* queued, and a switch that answers when it likes.
CfgNext ==
    \/ CallerTurn /\ AddFlow(1, 1, <<"a">>, 1, FALSE)
    \/ CallerTurn /\ RemoveFlows(1)
    \/ connection_seqno = 0 /\ RunWith({"up"}, {OursMapped}, {})
    \/ RunWith({"stay"}, {OursMapped}, {})
    \/ /\ CallerTurn
       /\ \E nb_cfg \in 0..MaxCfg, flow_changed \in BOOLEAN :
             Put(nb_cfg, flow_changed)

SpecCfg == Init /\ [][CfgNext]_vars

\* C2: cur_cfg never decreases, whatever the nb_cfg of the ofctrl_put()
\* calls and the barrier replies.
CurCfgMonotonic == [][cur_cfg' >= cur_cfg]_vars

\* The barrier requests of ofctrl_put() among the packets 'msgs'.
PutBarriers(msgs) ==
    {msgs[n] : n \in {m \in 1..Len(msgs) : msgs[m].nb_cfg >= 0}}

\* The barriers of ofctrl_put() on this connection that are not answered.
Unconfirmed == PutBarriers(txq) \cup PutBarriers(sw_pending)

\* C3: cur_cfg is not raised to an nb_cfg while a batch that ofctrl_put()
\* sent for that nb_cfg or a lower one on this connection awaits its barrier
\* reply.
CurCfgConfirmed ==
    [][cur_cfg' > cur_cfg
       => \A b \in Unconfirmed' : b.nb_cfg > cur_cfg']_vars

(* ------------------------- duplicate flows ----------------------------- *)

\* C11: ofctrl_add_flow() with a key for which a desired flow already lists
\* the same sb_uuid leaves the desired flows (actions and cookie included),
\* the match table and the sb_uuid table as they are, whatever actions and
\* cookie the call carries.
AddFlowDuplicateDropped ==
    [][last'.op = "add_flow" /\ last'.dup
       => UNCHANGED <<dflows, match_flow_table, uuid_flow_table>>]_vars

\* A duplicate ofctrl_add_flow() was dropped on a table whose flows have
\* cookie 1 and cookie 2: one of the two differs from the call's cookie.
AddFlowDuplicateDroppedWitness ==
    /\ last.op = "add_flow"
    /\ last.dup
    /\ {dflows[f].cookie : f \in DOMAIN dflows} = {1, 2}
    /\ \A f, g \in DOMAIN dflows : dflows[f].key = dflows[g].key

(* ------------------------- when put may run --------------------------- *)

\* The three conditions of ofctrl_can_put() on the variables.
CanPutConditions ==
    /\ state = "S_UPDATE_FLOWS"
    /\ Len(txq) = 0
    /\ connected

\* C12: ofctrl_can_put() is true exactly when the state is S_UPDATE_FLOWS,
\* no packet is in flight on the send counter and the connection has a
\* negotiated version; an ofctrl_put() with flow_changed gets to update the
\* flow table exactly then.
CanPutExactly ==
    [][/\ ofctrl_can_put(Mem) <=> CanPutConditions
       /\ last'.op = "put" /\ last'.flow_changed
          => (last'.ran <=> CanPutConditions)]_vars

\* An ofctrl_put() with flow_changed in S_UPDATE_FLOWS on a connection that
\* is up did not update the flow table: packets were in flight.
CanPutExactlyWitness ==
    /\ last.op = "put"
    /\ last.flow_changed
    /\ ~last.ran
    /\ state = "S_UPDATE_FLOWS"
    /\ connected
    /\ txq # <<>>

\* C13: after an ofctrl_put() that had to update the flow table and could
\* not, the next ofctrl_put() that finds ofctrl_can_put() true updates it,
\* whatever its flow_changed and nb_cfg; and skipped_last_time goes from
\* true to false only in an ofctrl_put() that updates the flow table.
SkippedPutRetried ==
    [][/\ last'.op = "put" /\ last'.flow_changed /\ ~CanPutConditions
          => skipped_last_time'
       /\ last'.op = "put" /\ skipped_last_time /\ CanPutConditions
          => last'.ran /\ ~skipped_last_time'
       /\ skipped_last_time /\ ~skipped_last_time'
          => last'.op = "put" /\ last'.ran]_vars

\* An ofctrl_put() with flow_changed false and the nb_cfg of the call before
\* it, with no reinstall pending, updated the flow table and sent a packet:
\* the call before it was skipped.
SkippedPutRetriedWitness ==
    /\ last.op = "put"
    /\ last.sticky
    /\ last.ran
    /\ txq # <<>>

\* C14: an ofctrl_put() called while ofctrl_can_put() is false sends no
\* packet and leaves cur_cfg, the installed flows, the flow updates and the
\* conntrack zones as they are, whatever its flow_changed and nb_cfg.
PutSkippedEntirely ==
    [][last'.op = "put" /\ ~CanPutConditions
       => UNCHANGED <<cur_cfg, iflows, installed_flows, flow_updates,
                      pending_ct_zones, txq>>]_vars

(* ------------------- the negotiation of the TLV table ------------------ *)

\* What a switch may send on request 'req' while the TLV table is
\* negotiated.  On a TLV table request: a reply with any of the mappings, a
\* reply that does not decode, an error, a packet of another type with the
\* request's xid, or an echo request of its own (xid 0) before the reply.
\* On a TLV table mod: nothing, an error of the two "raced" codes or of
\* another code, or a packet of another type with the mod's xid.  On a
\* barrier request: the reply, or an error with the barrier's xid.
NegotiationAnswers(req) ==
    CASE req.type = "NXT_TLV_TABLE_REQUEST" ->
            {<<OfMsg("NXT_TLV_TABLE_REPLY", req.xid, <<TRUE, mp>>)>> :
                mp \in {NoMappings, OursMapped, OursOutOfRange, OtherMapped,
                        AllMapped,
                        <<[ours |-> FALSE, index |-> 0],
                          [ours |-> FALSE, index |-> 2],
                          [ours |-> FALSE, index |-> TUN_METADATA_NUM_OPTS]>>}}
            \cup {<<OfMsg("NXT_TLV_TABLE_REPLY", req.xid, <<FALSE, <<>>>>)>>,
                  <<OfMsg("OFPT_ERROR", req.xid, <<"OFPBRC_BAD_TYPE">>)>>,
                  <<OfMsg("OFPT_BARRIER_REPLY", req.xid, <<>>)>>,
                  <<OfMsg("OFPT_ECHO_REQUEST", 0, <<>>),
                    OfMsg("NXT_TLV_TABLE_REPLY", req.xid, <<TRUE, OtherMapped>>)>>}
      [] req.type = "NXT_TLV_TABLE_MOD" ->
            {<<>>,
             <<OfMsg("OFPT_ERROR", req.xid, <<"NXTTMFC_ALREADY_MAPPED">>)>>,
             <<OfMsg("OFPT_ERROR", req.xid, <<"NXTTMFC_DUP_ENTRY">>)>>,
             <<OfMsg("OFPT_ERROR", req.xid, <<"NXTTMFC_TABLE_FULL">>)>>,
             <<OfMsg("OFPT_BARRIER_REPLY", req.xid, <<>>)>>,
             <<OfMsg("OFPT_ECHO_REQUEST", 0, <<>>)>>}
      [] OTHER ->
            {<<OfMsg("OFPT_BARRIER_REPLY", req.xid, <<>>)>>,
             <<OfMsg("OFPT_ERROR", req.xid, <<"OFPBRC_BAD_TYPE">>)>>}

\* The packets such a switch may have sent in answer to the first 'served'
\* requests of 'requests'.
RECURSIVE NegotiationInboxes(_, _)
NegotiationInboxes(requests, served) ==
    IF served = 0 THEN {<<>>}
    ELSE {a \o rest : a \in NegotiationAnswers(Head(requests)),
                      rest \in NegotiationInboxes(Tail(requests), served - 1)}

\* ofctrl_run() with such a switch, on a connection that comes and goes.
RunNegotiation ==
    \E event \in {"stay", "up", "down"}, drained \in BOOLEAN :
        \E served \in 0..Len(rconn_sent(Mem, drained)) :
            \E inbox \in NegotiationInboxes(rconn_sent(Mem, drained), served) :
                Run(event, drained, served, inbox)

NegotiationNext == RunNegotiation

SpecNegotiation == Init /\ [][NegotiationNext]_vars

HandledIn(s) ==
    {last.handled[n] : n \in {m \in 1..Len(last.handled) :
                                 last.handled[m].state = s}}

\* In S_TLV_TABLE_MOD_SENT, packet 'h' makes the negotiation fail: an error
\* with the mod's xid and a code other than the two "raced" ones, or another
\* packet with one of the two xids that is not the barrier's reply.
ModRefused(h) ==
    /\ h.oh.xid \in {h.xid, h.xid2}
    /\ ~(h.oh.xid = h.xid2 /\ h.oh.type = "OFPT_BARRIER_REPLY")
    /\ ~(/\ h.oh.xid = h.xid
         /\ h.oh.type = "OFPT_ERROR"
         /\ h.oh.body[1] \in {"NXTTMFC_ALREADY_MAPPED", "NXTTMFC_DUP_ENTRY"})

\* C16: in S_TLV_TABLE_MOD_SENT an error with the mod's xid that is not one
\* of the two "raced" codes, or any other unexpected packet with one of the
\* two xids, moves the state to S_CLEAR_FLOWS and sets the field to 0.
TlvModRefusedDisables ==
    \A h \in HandledIn("S_TLV_TABLE_MOD_SENT") :
        ModRefused(h) => h.next_state = "S_CLEAR_FLOWS" /\ h.next_field = 0

\* In S_TLV_TABLE_REQUESTED, the reply 'oh' makes the negotiation fail: an
\* error, a reply that does not decode, a packet of another type, a reply
\* without our option and with every index in use, or a reply with our
\* option at an index out of range.
RequestRefused(oh) ==
    \/ oh.type # "NXT_TLV_TABLE_REPLY"
    \/ ~oh.body[1]
    \/ LET mp == oh.body[2]
       IN  \/ /\ \A n \in 1..Len(mp) : ~mp[n].ours
              /\ \A x \in 0..(TUN_METADATA_NUM_OPTS - 1) :
                    \E n \in 1..Len(mp) : mp[n].index = x
           \/ \E n \in 1..Len(mp) :
                 mp[n].ours /\ mp[n].index >= TUN_METADATA_NUM_OPTS

\* C17: in S_TLV_TABLE_REQUESTED a packet with the request's xid that is an
\* error, does not decode, is of another type, shows every index in use or
\* has our option at an index of 64 or more sets the field to 0 and the
\* state to S_CLEAR_FLOWS; a packet with another xid leaves both.
TlvRequestRefusedDisables ==
    \A h \in HandledIn("S_TLV_TABLE_REQUESTED") :
        /\ h.oh.xid = h.xid /\ RequestRefused(h.oh)
           => h.next_state = "S_CLEAR_FLOWS" /\ h.next_field = 0
        /\ h.oh.xid # h.xid
           => h.next_state = h.state /\ h.next_field = h.field

\* A run on the second connection, with the field of the first one still
\* set, received an echo request of the switch and then the reply that
\* shows every index in use.
TlvRequestRefusedDisablesWitness ==
    /\ last.op = "run"
    /\ \E h \in HandledIn("S_TLV_TABLE_REQUESTED") :
          /\ h.oh.xid # h.xid
          /\ h.field # 0
    /\ \E h \in HandledIn("S_TLV_TABLE_REQUESTED") :
          /\ h.oh.xid = h.xid
          /\ h.oh.type = "NXT_TLV_TABLE_REPLY"
          /\ h.oh.body = <<TRUE, AllMapped>>
          /\ h.field # 0

(* ------------------- the packets of one ofctrl_put() ------------------- *)

\* Largest conntrack zone and largest table_id of a group or meter.
NumZones == 1

NumExtendIds == 2

\* The caller queues the flush of conntrack zone 'z' in 'pending_ct_zones'.
QueueZone(z) ==
    /\ ~aborted
    /\ z \notin DOMAIN pending_ct_zones
    /\ Commit([NoNodes(Mem) EXCEPT
                 !.pending_ct_zones =
                     (z :> [state |-> "CT_ZONE_OF_QUEUED", of_xid |-> 0]) @@ @])
    /\ last' = [NoOp EXCEPT !.op = "queue_zone"]
    /\ UNCHANGED reconnected

\* The actions of the caller's logical flow 'sb_uuid' come to name group
\* 'table_id' and meter 'table_id'.
DesireGroupAndMeter(table_id, sb_uuid) ==
    /\ ~aborted
    /\ Commit([NoNodes(Mem) EXCEPT
                 !.groups.desired =
                     @ \cup {[table_id |-> table_id, sb_uuid |-> sb_uuid]},
                 !.meters.desired =
                     @ \cup {[table_id |-> table_id, sb_uuid |-> sb_uuid]}])
    /\ last' = [NoOp EXCEPT !.op = "desire_group_and_meter"]
    /\ UNCHANGED reconnected

\* One logical flow whose flows, groups, meters and zones change between
\* the calls of ofctrl_put(), on one connection to a prompt switch: its flow
\* with key 1 changes its cookie and its actions, its flow with key 2 comes
\* and goes.
OrderNext ==
    \/ /\ CallerTurn
       /\ \E cookie \in 1..2, actions \in OneAction :
             AddFlow(1, cookie, actions, 1, FALSE)
    \/ CallerTurn /\ AddFlow(2, 1, <<"a">>, 1, FALSE)
    \/ CallerTurn /\ RemoveFlows(1)
    \/ CallerTurn /\ \E z \in 1..NumZones : QueueZone(z)
    \/ /\ CallerTurn
       /\ \E table_id \in 1..NumExtendIds : DesireGroupAndMeter(table_id, 1)
    \/ connection_seqno = 0 /\ RunPrompt({"up"})
    \/ RunPrompt({"stay"})
    \/ CallerTurn /\ Put(0, TRUE)

SpecOrder == Init /\ [][OrderNext]_vars

\* The place of packet 'msg' in the order of ofctrl_put(), where flows with
\* the keys 'installed' were installed when ofctrl_put() began: a flow_mod
\* for one of them comes of the walk over the installed flows, whatever its
\* command, and a flow_mod for another key of the walk over the desired ones.
PutPhase(msg, installed) ==
    CASE msg.type = "NXT_CT_FLUSH_ZONE" -> 1
      [] msg.type = "OFPT_GROUP_MOD" /\ msg.body[1] = "OFPGC11_ADD" -> 2
      [] msg.type = "OFPT_METER_MOD" /\ msg.body[1] = "OFPMC13_ADD" -> 3
      [] msg.type = "OFPT_FLOW_MOD"
         /\ \/ msg.body[1] \in {"OFPFC_DELETE_STRICT", "OFPFC_MODIFY_STRICT"}
            \/ msg.body[1] = "OFPFC_ADD" /\ msg.body[2] \in installed -> 4
      [] msg.type = "OFPT_FLOW_MOD" /\ msg.body[1] = "OFPFC_ADD"
         /\ msg.body[2] \notin installed -> 5
      [] msg.type = "OFPT_GROUP_MOD" /\ msg.body[1] = "OFPGC11_DELETE" -> 6
      [] msg.type = "OFPT_METER_MOD" /\ msg.body[1] = "OFPMC13_DELETE" -> 7
      [] msg.type = "OFPT_BARRIER_REQUEST" -> 8
      [] OTHER -> 0

\* The keys of the installed flows.
InstalledKeys == {iflows[i].key : i \in DOMAIN iflows}

\* The packets in 'q' from place 'from' on are in the order of ofctrl_put():
\* each is of a kind ofctrl_put() sends, none comes before one of an earlier
\* phase, and the barrier is the last of them and the only one.
PutOrdered(q, from, installed) ==
    /\ \A a \in from..Len(q) : PutPhase(q[a], installed) >= 1
    /\ \A a, b \in from..Len(q) :
          a < b => PutPhase(q[a], installed) <= PutPhase(q[b], installed)
    /\ \A a \in from..Len(q) :
          PutPhase(q[a], installed) = 8 <=> a = Len(q)

\* C18: the packets one ofctrl_put() queues are in this order: the
\* conntrack zone flushes, the group adds, the meter adds, the deletes and
\* the modifications of installed flows, the adds of new flows, the group
\* deletes, the meter deletes, and the barrier request as the last packet.
PutMessageOrder ==
    [][last'.op = "put" /\ last'.ran
       => /\ Len(txq') >= Len(txq)
          /\ SubSeq(txq', 1, Len(txq)) = txq
          /\ PutOrdered(txq', Len(txq) + 1, InstalledKeys)]_vars

\* An ofctrl_put() queued a zone flush, a group add, a meter add, the
\* delete of a flow, the add of a flow, a group delete, a meter delete and
\* the barrier.
PutMessageOrderWitness ==
    /\ last.op = "put"
    /\ last.ran
    /\ \E n \in 1..Len(txq) :
          /\ txq[n].type = "NXT_CT_FLUSH_ZONE"
          /\ \E a, b, c, e, f, g \in n..Len(txq) :
                /\ txq[a].type = "OFPT_GROUP_MOD" /\ txq[a].body[1] = "OFPGC11_ADD"
                /\ txq[b].type = "OFPT_METER_MOD" /\ txq[b].body[1] = "OFPMC13_ADD"
                /\ txq[c].type = "OFPT_FLOW_MOD"
                /\ txq[c].body[1] = "OFPFC_DELETE_STRICT"
                /\ txq[e].type = "OFPT_FLOW_MOD" /\ txq[e].body[1] = "OFPFC_ADD"
                /\ txq[f].type = "OFPT_GROUP_MOD"
                /\ txq[f].body[1] = "OFPGC11_DELETE"
                /\ txq[g].type = "OFPT_METER_MOD"
                /\ txq[g].body[1] = "OFPMC13_DELETE"
          /\ txq[Len(txq)].type = "OFPT_BARRIER_REQUEST"
          /\ \A a \in n..Len(txq) - 1 : txq[a].type # "OFPT_BARRIER_REQUEST"

\* The places in queue 'q' after place 'from' of the flow_mods for 'key'.
FlowModsFor(q, from, key) ==
    {a \in from + 1..Len(q) : q[a].type = "OFPT_FLOW_MOD" /\ q[a].body[2] = key}

\* C19: an ofctrl_put() that updates the flow table sends, for an installed
\* flow whose desired flow (the first with its key) has the same actions and
\* another cookie, one flow_mod with the key, an OFPFC_ADD with the new
\* cookie, and the installed flow takes that cookie where it is; when only
\* the actions differ the one flow_mod is an OFPFC_MODIFY_STRICT; when
\* neither differs there is no flow_mod with the key.
PutModifiesInPlace ==
    [][last'.op = "put" /\ last'.ran
       => \A i \in DOMAIN iflows :
             LET d == desired_flow_lookup(Mem, iflows[i].key, NULL)
                 mods == FlowModsFor(txq', Len(txq), iflows[i].key)
                 same_actions == dflows[d].ofpacts = iflows[i].ofpacts
                 same_cookie == dflows[d].cookie = iflows[i].cookie
             IN  d # NULL
                 => /\ same_actions /\ ~same_cookie
                       => /\ Cardinality(mods) = 1
                          /\ \A a \in mods :
                                /\ txq'[a].body[1] = "OFPFC_ADD"
                                /\ txq'[a].body[4] = dflows[d].cookie
                          /\ i \in DOMAIN iflows'
                          /\ iflows'[i].key = iflows[i].key
                          /\ iflows'[i].cookie = dflows[d].cookie
                    /\ ~same_actions /\ same_cookie
                       => /\ Cardinality(mods) = 1
                          /\ \A a \in mods :
                                /\ txq'[a].body[1] = "OFPFC_MODIFY_STRICT"
                                /\ txq'[a].body[3] = dflows[d].ofpacts
                    /\ same_actions /\ same_cookie => mods = {}]_vars

\* An ofctrl_put() sent an OFPFC_ADD with cookie 2 for one key and after it
\* an OFPFC_MODIFY_STRICT for another: both came of the walk over the
\* installed flows, the first for a changed cookie, the second for changed
\* actions, and the installed flows have the cookie and the actions sent.
PutModifiesInPlaceWitness ==
    /\ last.op = "put"
    /\ last.ran
    /\ \E a, b \in 1..Len(txq) :
          /\ a < b
          /\ txq[a].type = "OFPT_FLOW_MOD"
          /\ txq[a].body[1] = "OFPFC_ADD"
          /\ txq[a].body[4] = 2
          /\ txq[b].type = "OFPT_FLOW_MOD"
          /\ txq[b].body[1] = "OFPFC_MODIFY_STRICT"
          /\ txq[a].body[2] # txq[b].body[2]
          /\ \E i, j \in DOMAIN iflows :
                /\ iflows[i].key = txq[a].body[2]
                /\ iflows[i].cookie = 2
                /\ iflows[j].key = txq[b].body[2]
                /\ iflows[j].ofpacts = txq[b].body[3]

\* Every public operation: the desired flows change through the whole
\* table API between the calls of ofctrl_put(), while the connection comes
\* and goes and run_S_CLEAR_FLOWS() clears the installed flows.
LinksNext ==
    \/ /\ CallerTurn
       /\ \E key \in Keys, sb_uuid \in 1..2 :
             AddFlow(key, 1, <<"a">>, sb_uuid, FALSE)
    \/ CallerTurn /\ AddOrAppendFlow(1, 1, <<"a">>, 2, FALSE)
    \/ CallerTurn /\ \E sb_uuid \in 1..2 : RemoveFlows(sb_uuid)
    \/ CallerTurn /\ FloodRemoveFlows(<<1>>)
    \/ CallerTurn /\ DesiredClear
    \/ RunPrompt({"stay", "up", "down"})
    \/ CallerTurn /\ Put(0, TRUE)

SpecLinks == Init /\ [][LinksNext]_vars

\* C20: after every public operation a desired flow has an installed flow
\* as its installed_flow exactly when it is on that installed flow's
\* desired_refs, and it is there once.
LinksBothWays ==
    /\ \A f \in DOMAIN dflows :
          dflows[f].installed_flow # NULL
          => dflows[f].installed_flow \in DOMAIN iflows
    /\ \A i \in DOMAIN iflows :
          /\ \A n \in 1..Len(iflows[i].desired_refs) :
                iflows[i].desired_refs[n] \in DOMAIN dflows
          /\ \A f \in DOMAIN dflows :
                LET places == {n \in 1..Len(iflows[i].desired_refs) :
                                  iflows[i].desired_refs[n] = f}
                IN  /\ dflows[f].installed_flow = i <=> places # {}
                    /\ Cardinality(places) <= 1

\* An ofctrl_put() left an installed flow with two desired flows on its
\* desired_refs.
LinksBothWaysWitness ==
    /\ last.op = "put"
    /\ last.ran
    /\ \E i \in DOMAIN iflows : Len(iflows[i].desired_refs) = 2

\* C21: after every public operation an installed flow with desired flows
\* on its desired_refs has one of them as its desired_flow, and one with
\* none has no desired_flow; when ofctrl_remove_flows(),
\* ofctrl_flood_remove_flows() or ovn_desired_flow_table_clear() unlinks the
\* desired_flow of an installed flow, the first of the desired_refs left
\* becomes its desired_flow.
PrimaryOnRefs ==
    [][/\ \A i \in DOMAIN iflows' :
             IF iflows'[i].desired_refs = <<>>
             THEN iflows'[i].desired_flow = NULL
             ELSE iflows'[i].desired_flow \in Range(iflows'[i].desired_refs)
       /\ last'.op \in {"remove_flows", "flood_remove_flows", "clear"}
          => \A i \in DOMAIN iflows :
                /\ i \in DOMAIN iflows'
                /\ iflows'[i].desired_refs =
                      SelectSeq(iflows[i].desired_refs,
                                LAMBDA f : f \in DOMAIN dflows')
                /\ iflows[i].desired_flow \notin DOMAIN dflows'
                   => iflows'[i].desired_flow =
                         IF iflows'[i].desired_refs = <<>> THEN NULL
                         ELSE Head(iflows'[i].desired_refs)]_vars

\* ofctrl_remove_flows() left an installed flow whose desired_flow, the
\* first of its desired_refs, has fewer actions than were installed: the
\* desired flow it was installed from is unlinked and gone.
PrimaryOnRefsWitness ==
    /\ last.op = "remove_flows"
    /\ \E i \in DOMAIN iflows :
          /\ iflows[i].desired_refs # <<>>
          /\ iflows[i].desired_flow = Head(iflows[i].desired_refs)
          /\ Len(dflows[iflows[i].desired_flow].ofpacts) < Len(iflows[i].ofpacts)

\* C22: no two installed flows have the same key, and an installed flow is
\* on the chain of its hash once, whatever desired flows share the key.
InstalledKeyUnique ==
    /\ \A i, j \in DOMAIN iflows : iflows[i].key = iflows[j].key => i = j
    /\ \A i \in DOMAIN iflows :
          LET chain == installed_flows[ovn_flow_match_hash(iflows[i].key)]
          IN  Cardinality({n \in 1..Len(chain) : chain[n] = i}) = 1

\* An ofctrl_put() installed one flow for a key that two desired flows of
\* different sources have: it queued one OFPFC_ADD with the key, and both
\* desired flows have the installed flow as their installed_flow.
InstalledKeyUniqueWitness ==
    /\ last.op = "put"
    /\ last.ran
    /\ \E f, g \in DOMAIN dflows : \E i \in DOMAIN iflows :
          /\ f # g
          /\ dflows[f].key = dflows[g].key
          /\ SourcesOf(dflows, f) # SourcesOf(dflows, g)
          /\ dflows[f].installed_flow = i
          /\ dflows[g].installed_flow = i
          /\ Cardinality({a \in 1..Len(txq) :
                            /\ txq[a].type = "OFPT_FLOW_MOD"
                            /\ txq[a].body[1] = "OFPFC_ADD"
                            /\ txq[a].body[2] = iflows[i].key}) = 1

\* C23: in S_TLV_TABLE_REQUESTED a reply with the request's xid that has
\* no mapping of our option and leaves one of the 64 indexes free makes
\* the handler send an NXT_TLV_TABLE_MOD that adds our option at the lowest
\* free index and then a barrier request, keep the xid of the first in xid
\* and of the second in xid2, and move to S_TLV_TABLE_MOD_SENT.
TlvFreeSlotRequested ==
    \A h \in HandledIn("S_TLV_TABLE_REQUESTED") :
        LET mp == h.oh.body[2]
            free == (0..(TUN_METADATA_NUM_OPTS - 1))
                       \ {mp[n].index : n \in 1..Len(mp)}
        IN  /\ h.oh.xid = h.xid
            /\ h.oh.type = "NXT_TLV_TABLE_REPLY"
            /\ h.oh.body[1]
            /\ \A n \in 1..Len(mp) : ~mp[n].ours
            /\ free # {}
            => /\ Len(h.sent) = 2
               /\ h.sent[1].type = "NXT_TLV_TABLE_MOD"
               /\ h.sent[1].body[1] \in free
               /\ \A x \in free : h.sent[1].body[1] <= x
               /\ h.sent[2].type = "OFPT_BARRIER_REQUEST"
               /\ h.next_xid = h.sent[1].xid
               /\ h.next_xid2 = h.sent[2].xid
               /\ h.next_xid # h.next_xid2
               /\ h.next_state = "S_TLV_TABLE_MOD_SENT"

\* A reply that maps other options at the indexes 0, 2 and 64 was handled
\* in S_TLV_TABLE_REQUESTED, and the mod sent asks for index 1.
TlvFreeSlotRequestedWitness ==
    \E h \in HandledIn("S_TLV_TABLE_REQUESTED") :
        /\ h.oh.xid = h.xid
        /\ h.oh.type = "NXT_TLV_TABLE_REPLY"
        /\ Len(h.oh.body[2]) = 3
        /\ Len(h.sent) = 2
        /\ h.sent[1].body[1] = 1
        /\ h.next_state = "S_TLV_TABLE_MOD_SENT"

\* C24: the handler that sends the NXT_TLV_TABLE_MOD sets the field to the
\* index it asks for; in S_TLV_TABLE_MOD_SENT the reply to the barrier, with
\* xid2, moves the state to S_CLEAR_FLOWS and leaves the field at that
\* index, and a packet with neither xid nor xid2 leaves the state and the
\* field as they are.
TlvBarrierCommits ==
    /\ \A h \in HandledIn("S_TLV_TABLE_REQUESTED") :
          h.next_state = "S_TLV_TABLE_MOD_SENT"
          => h.next_field = MFF_TUN_METADATA0 + h.sent[1].body[1]
    /\ \A h \in HandledIn("S_TLV_TABLE_MOD_SENT") :
          /\ h.oh.xid = h.xid2 /\ h.oh.type = "OFPT_BARRIER_REPLY"
             => /\ h.next_state = "S_CLEAR_FLOWS"
                /\ h.next_field = h.field
                /\ h.field \in MFF_TUN_METADATA0
                                  ..(MFF_TUN_METADATA0 + TUN_METADATA_NUM_OPTS - 1)
          /\ h.oh.xid \notin {h.xid, h.xid2}
             => h.next_state = h.state /\ h.next_field = h.field
    /\ state = "S_TLV_TABLE_MOD_SENT"
       => mff_ovn_geneve \in MFF_TUN_METADATA0
                                ..(MFF_TUN_METADATA0 + TUN_METADATA_NUM_OPTS - 1)

\* One run handled the reply that leaves index 1 as the lowest free one, an
\* echo request in S_TLV_TABLE_MOD_SENT and then the barrier's reply, and
\* the field is at index 1.
TlvBarrierCommitsWitness ==
    /\ mff_ovn_geneve = MFF_TUN_METADATA0 + 1
    /\ \E h \in HandledIn("S_TLV_TABLE_MOD_SENT") :
          /\ h.oh.xid = h.xid2
          /\ h.oh.type = "OFPT_BARRIER_REPLY"
          /\ h.next_state = "S_CLEAR_FLOWS"
    /\ \E h \in HandledIn("S_TLV_TABLE_MOD_SENT") :
          /\ h.oh.type = "OFPT_ECHO_REQUEST"
          /\ h.oh.xid \notin {h.xid, h.xid2}

\* C25: in S_TLV_TABLE_MOD_SENT an error with the mod's xid and the code
\* NXTTMFC_ALREADY_MAPPED or NXTTMFC_DUP_ENTRY moves the state to S_NEW; the
\* same run then sends a new NXT_TLV_TABLE_REQUEST, with an xid of its own,
\* and waits in S_TLV_TABLE_REQUESTED, where the reply to the barrier of the
\* attempt given up changes neither the state nor the field.
TlvRaceRetries ==
    \A n \in 1..Len(last.handled) :
        LET h == last.handled[n]
        IN  /\ h.state = "S_TLV_TABLE_MOD_SENT"
            /\ h.oh.xid = h.xid
            /\ h.oh.type = "OFPT_ERROR"
            /\ h.oh.body[1] \in {"NXTTMFC_ALREADY_MAPPED", "NXTTMFC_DUP_ENTRY"}
            => /\ h.next_state = "S_NEW"
               /\ IF n < Len(last.handled)
                  THEN LET g == last.handled[n + 1]
                       IN  /\ g.state = "S_TLV_TABLE_REQUESTED"
                           /\ g.xid \notin {h.xid, h.xid2}
                           /\ g.oh.xid = h.xid2
                              => /\ g.next_state = g.state
                                 /\ g.next_field = g.field
                  ELSE /\ state = "S_TLV_TABLE_REQUESTED"
                       /\ xid \notin {h.xid, h.xid2}
                       /\ \E a \in 1..Len(txq) :
                             /\ txq[a].type = "NXT_TLV_TABLE_REQUEST"
                             /\ txq[a].xid = xid

\* One run handled the error of a race and then, in S_TLV_TABLE_REQUESTED,
\* the reply to the barrier sent with the mod.
TlvRaceRetriesWitness ==
    \E n \in 1..Len(last.handled) - 1 :
        /\ last.handled[n].state = "S_TLV_TABLE_MOD_SENT"
        /\ last.handled[n].oh.type = "OFPT_ERROR"
        /\ last.handled[n].next_state = "S_NEW"
        /\ last.handled[n + 1].state = "S_TLV_TABLE_REQUESTED"
        /\ last.handled[n + 1].oh.type = "OFPT_BARRIER_REPLY"
        /\ last.handled[n + 1].oh.xid = last.handled[n].xid2
        /\ state = "S_TLV_TABLE_REQUESTED"

\* The flow table kept up to date for a caller whose nb_cfg and pending
\* zones change, on a connection that comes and goes, to a switch that
\* answers late and also sends an error or a barrier reply nobody asked
\* for.
UpdateNext ==
    \/ CallerTurn /\ AddFlow(1, 1, <<"a">>, 1, FALSE)
    \/ CallerTurn /\ RemoveFlows(1)
    \/ CallerTurn /\ \E z \in 1..NumZones : QueueZone(z)
    \/ \E event \in {"stay", "up", "down"} :
          \E served \in 0..Len(rconn_sent(Mem, txq # <<>>)) :
             \E inbox \in Inboxes(rconn_sent(Mem, txq # <<>>), served,
                                  {OursMapped}, {}),
                unasked \in {<<>>,
                             <<OfMsg("OFPT_ERROR", 0, <<"OFPBRC_BAD_TYPE">>)>>,
                             <<OfMsg("OFPT_BARRIER_REPLY", 0, <<>>)>>} :
                /\ unasked # <<>> => event = "stay" /\ connected
                /\ Run(event, event = "stay" /\ connected /\ txq # <<>>,
                       served, inbox \o unasked)
    \/ CallerTurn /\ \E nb_cfg \in 0..MaxCfg : Put(nb_cfg, TRUE)

SpecUpdate == Init /\ [][UpdateNext]_vars

\* C26: an ofctrl_run() that runs run_S_CLEAR_FLOWS(), seen by the
\* OFPFC_DELETE of all flows it queues, queues after it the delete of all
\* groups and the delete of all meters, leaves no installed flow, no flow
\* update and no desired flow with an installed_flow, sets
\* need_reinstall_flows, leaves cur_cfg and the desired flows with their
\* sources, and ends in S_UPDATE_FLOWS.
ClearFlowsEffect ==
    [][/\ last'.op = "run"
       /\ txq' # txq
       /\ \E a \in 1..Len(txq') :
             txq'[a].type = "OFPT_FLOW_MOD" /\ txq'[a].body[1] = "OFPFC_DELETE"
       => /\ \E a \in 1..Len(txq') - 2 :
                /\ txq'[a].type = "OFPT_FLOW_MOD"
                /\ txq'[a].body[1] = "OFPFC_DELETE"
                /\ txq'[a + 1] = OfMsg("OFPT_GROUP_MOD", 0, <<"OFPGC11_DELETE", 0>>)
                /\ txq'[a + 2] = OfMsg("OFPT_METER_MOD", 0, <<"OFPMC13_DELETE", 0>>)
          /\ iflows' = <<>>
          /\ \A b \in DOMAIN installed_flows' : installed_flows'[b] = <<>>
          /\ flow_updates' = <<>>
          /\ need_reinstall_flows'
          /\ cur_cfg' = cur_cfg
          /\ dflows' = [f \in DOMAIN dflows |->
                           [dflows[f] EXCEPT !.installed_flow = NULL]]
          /\ UNCHANGED <<match_flow_table, uuid_flow_table>>
          /\ state' = "S_UPDATE_FLOWS"]_vars

\* An ofctrl_run() on the second connection cleared the flows while a
\* desired flow was there and cur_cfg was 1.
ClearFlowsEffectWitness ==
    /\ last.op = "run"
    /\ connection_seqno = 2
    /\ cur_cfg = 1
    /\ dflows # <<>>
    /\ state = "S_UPDATE_FLOWS"
    /\ \E a \in 1..Len(txq) :
          txq[a].type = "OFPT_FLOW_MOD" /\ txq[a].body[1] = "OFPFC_DELETE"

\* C27: no packet received in S_UPDATE_FLOWS changes the state, and a step
\* that leaves S_UPDATE_FLOWS is an ofctrl_run() that found the connection
\* sequence number changed; such a run, in whatever state, enters its loop
\* in S_NEW.
UpdateFlowsTerminal ==
    [][/\ \A h \in HandledIn("S_UPDATE_FLOWS")' :
             h.next_state = "S_UPDATE_FLOWS"
       /\ state = "S_UPDATE_FLOWS" /\ state' # "S_UPDATE_FLOWS"
          => /\ last'.op = "run"
             /\ connected'
             /\ connection_seqno' # seqno
       /\ last'.op = "run" /\ connected' /\ connection_seqno' # seqno
          => last'.entry = "S_NEW" /\ seqno' = connection_seqno']_vars

\* On the second connection an ofctrl_run() received an error and a barrier
\* reply in S_UPDATE_FLOWS, after an ofctrl_put(), and is in S_UPDATE_FLOWS.
UpdateFlowsTerminalWitness ==
    /\ last.op = "run"
    /\ connection_seqno = 2
    /\ state = "S_UPDATE_FLOWS"
    /\ iflows # <<>>
    /\ \E h \in HandledIn("S_UPDATE_FLOWS") : h.oh.type = "OFPT_ERROR"
    /\ \E h \in HandledIn("S_UPDATE_FLOWS") : h.oh.type = "OFPT_BARRIER_REPLY"

\* C28: a barrier reply received in S_UPDATE_FLOWS is compared with the
\* first flow update only: when that one has the reply's xid it is removed
\* and cur_cfg becomes its nb_cfg unless cur_cfg is larger already;
\* otherwise the flow updates and cur_cfg stay as they are.
BarrierReplyHead ==
    \A h \in HandledIn("S_UPDATE_FLOWS") :
        h.oh.type = "OFPT_BARRIER_REPLY"
        => IF h.flow_updates # <<>> /\ Head(h.flow_updates).xid = h.oh.xid
           THEN /\ h.next_flow_updates = Tail(h.flow_updates)
                /\ h.next_cur_cfg =
                      IF Head(h.flow_updates).nb_cfg > h.cur_cfg
                      THEN Head(h.flow_updates).nb_cfg ELSE h.cur_cfg
           ELSE /\ h.next_flow_updates = h.flow_updates
                /\ h.next_cur_cfg = h.cur_cfg

\* One run received the reply to a barrier whose flow update a later
\* ofctrl_put() had given another xid, which changed nothing, and the reply
\* to a barrier that removed a flow update with an nb_cfg below cur_cfg.
BarrierReplyHeadWitness ==
    /\ \E h \in HandledIn("S_UPDATE_FLOWS") :
          /\ h.oh.type = "OFPT_BARRIER_REPLY"
          /\ h.oh.xid # 0
          /\ h.flow_updates # <<>>
          /\ Head(h.flow_updates).xid # h.oh.xid
    /\ \E h \in HandledIn("S_UPDATE_FLOWS") :
          /\ h.oh.type = "OFPT_BARRIER_REPLY"
          /\ h.flow_updates # <<>>
          /\ Head(h.flow_updates).xid = h.oh.xid
          /\ Head(h.flow_updates).nb_cfg < h.cur_cfg
          /\ h.next_cur_cfg = h.cur_cfg

\* C29: a barrier reply received in S_UPDATE_FLOWS moves every pending zone
\* that is in CT_ZONE_OF_SENT with the reply's xid as its of_xid to
\* CT_ZONE_DB_QUEUED, whatever the flow updates are, and leaves the other
\* pending zones as they are.
BarrierReplyZones ==
    \A h \in HandledIn("S_UPDATE_FLOWS") :
        h.oh.type = "OFPT_BARRIER_REPLY"
        => h.next_zones =
              [z \in DOMAIN h.zones |->
                  IF /\ h.zones[z].state = "CT_ZONE_OF_SENT"
                     /\ h.zones[z].of_xid = h.oh.xid
                  THEN [h.zones[z] EXCEPT !.state = "CT_ZONE_DB_QUEUED"]
                  ELSE h.zones[z]]

\* A barrier reply moved a zone to CT_ZONE_DB_QUEUED while the first flow
\* update had another xid, given to it by a later ofctrl_put().
BarrierReplyZonesWitness ==
    \E h \in HandledIn("S_UPDATE_FLOWS") : \E z \in DOMAIN h.zones :
        /\ h.oh.type = "OFPT_BARRIER_REPLY"
        /\ h.zones[z].state = "CT_ZONE_OF_SENT"
        /\ h.zones[z].of_xid = h.oh.xid
        /\ h.next_zones[z].state = "CT_ZONE_DB_QUEUED"
        /\ h.flow_updates # <<>>
        /\ Head(h.flow_updates).xid # h.oh.xid

\* C30: an ofctrl_run() that finds the connection sequence number changed
\* puts every pending zone in CT_ZONE_OF_SENT back to CT_ZONE_OF_QUEUED and
\* leaves the zones in another state as they are; no zone is in
\* CT_ZONE_OF_SENT until an ofctrl_put() has run on the new connection, and
\* the first one that runs queues a flush for every zone in
\* CT_ZONE_OF_QUEUED, ahead of its barrier, and gives the zone the
\* barrier's xid.
ReconnectRequeuesZones ==
    [][/\ last'.op = "run" /\ connected' /\ seqno' # seqno
          => pending_ct_zones' =
                [z \in DOMAIN pending_ct_zones |->
                    IF pending_ct_zones[z].state = "CT_ZONE_OF_SENT"
                    THEN [state |-> "CT_ZONE_OF_QUEUED",
                          of_xid |-> pending_ct_zones[z].of_xid]
                    ELSE pending_ct_zones[z]]
       /\ reconnected'
          => \A z \in DOMAIN pending_ct_zones' :
                pending_ct_zones'[z].state # "CT_ZONE_OF_SENT"
       /\ reconnected /\ last'.op = "put" /\ last'.ran
          => \A z \in DOMAIN pending_ct_zones :
                pending_ct_zones[z].state = "CT_ZONE_OF_QUEUED"
                => /\ \E a \in Len(txq) + 1..Len(txq') - 1 :
                         txq'[a] = OfMsg("NXT_CT_FLUSH_ZONE", 0, <<z>>)
                   /\ txq'[Len(txq')].type = "OFPT_BARRIER_REQUEST"
                   /\ pending_ct_zones'[z] =
                         [state |-> "CT_ZONE_OF_SENT",
                          of_xid |-> txq'[Len(txq')].xid]]_vars

\* On the second connection a zone is queued again that still has the xid of
\* the barrier that followed its flush on the first connection.
ReconnectRequeuesZonesWitness ==
    /\ connection_seqno = 2
    /\ seqno = 2
    /\ reconnected
    /\ \E z \in DOMAIN pending_ct_zones :
          /\ pending_ct_zones[z].state = "CT_ZONE_OF_QUEUED"
          /\ pending_ct_zones[z].of_xid # 0

\* C31: an ofctrl_put() queues a barrier request exactly when it queued
\* another message, never two of them, and the barrier is the last message;
\* after it the last flow update has the barrier's xid and the nb_cfg the
\* caller passed.
PutBarrierIffMessages ==
    [][last'.op = "put"
       => /\ Len(txq') >= Len(txq)
          /\ SubSeq(txq', 1, Len(txq)) = txq
          /\ Cardinality({a \in Len(txq) + 1..Len(txq') :
                             txq'[a].type = "OFPT_BARRIER_REQUEST"}) <= 1
          /\ (\E a \in Len(txq) + 1..Len(txq') :
                 txq'[a].type = "OFPT_BARRIER_REQUEST")
             <=> (\E a \in Len(txq) + 1..Len(txq') :
                     txq'[a].type # "OFPT_BARRIER_REQUEST")
          /\ \A a \in Len(txq) + 1..Len(txq') :
                txq'[a].type = "OFPT_BARRIER_REQUEST"
                => /\ a = Len(txq')
                   /\ flow_updates' # <<>>
                   /\ flow_updates'[Len(flow_updates')] =
                         [xid |-> txq'[a].xid, nb_cfg |-> old_nb_cfg']]_vars

\* An ofctrl_put() for nb_cfg 1 sent a batch and its barrier while the flow
\* update of an earlier batch was waiting.
PutBarrierIffMessagesWitness ==
    /\ last.op = "put"
    /\ last.ran
    /\ Len(txq) >= 2
    /\ txq[Len(txq)].type = "OFPT_BARRIER_REQUEST"
    /\ Len(flow_updates) = 2
    /\ flow_updates[2] = [xid |-> txq[Len(txq)].xid, nb_cfg |-> 1]

(* ------------------- nb_cfg that goes up and down ---------------------- *)

\* Largest nb_cfg the caller passes where nb_cfg regresses.
MaxRegressCfg == 2

\* Largest number of barriers the switch holds unanswered there.
MaxRegressPending == 3

\* One connection to a switch that maps the option and answers the requests
\* in order, as late as it likes; a caller that adds and removes one flow
\* and calls ofctrl_put() with flow_changed and any nb_cfg.
RegressNext ==
    \/ CallerTurn /\ AddFlow(1, 1, <<"a">>, 1, FALSE)
    \/ CallerTurn /\ RemoveFlows(1)
    \/ connection_seqno = 0 /\ Run("up", FALSE, 0, <<>>)
    \/ /\ ~aborted
       /\ connected
       /\ Len(rconn_sent(Mem, txq # <<>>)) <= MaxRegressPending
       /\ \E served \in 0..Len(rconn_sent(Mem, txq # <<>>)) :
             \E inbox \in Inboxes(rconn_sent(Mem, txq # <<>>), served,
                                  {OursMapped}, {}) :
                RunCommit(ofctrl_run(NoNodes(Mem), "stay", txq # <<>>,
                                     served, inbox))
    \/ CallerTurn /\ \E nb_cfg \in 0..MaxRegressCfg : Put(nb_cfg, TRUE)

SpecRegress == Init /\ [][RegressNext]_vars

\* C32: an ofctrl_put() that sends a batch for the nb_cfg of the last flow
\* update gives that record the new barrier's xid and appends none; and when
\* two flow updates in a row are for one nb_cfg and the later one has the xid
\* of a barrier that ofctrl_put() sent for that nb_cfg, which only this
\* replacement brings about, an ofctrl_run() does not raise cur_cfg to that
\* nb_cfg while the barrier awaits its reply.
SameCfgNewHorizon ==
    [][/\ /\ last'.op = "put"
          /\ Len(txq') > Len(txq)
          /\ flow_updates # <<>>
          /\ flow_updates[Len(flow_updates)].nb_cfg = old_nb_cfg'
          => flow_updates' =
                [flow_updates EXCEPT
                   ![Len(flow_updates)].xid = txq'[Len(txq')].xid]
       /\ last'.op = "run" /\ cur_cfg' > cur_cfg
          => \A n \in 1..Len(flow_updates) - 1 :
                /\ flow_updates[n].nb_cfg = cur_cfg'
                /\ flow_updates[n + 1].nb_cfg = cur_cfg'
                => \A b \in Unconfirmed' :
                      ~ /\ b.xid = flow_updates[n + 1].xid
                        /\ b.nb_cfg = cur_cfg']_vars

\* C33: after an ofctrl_put() that sends a batch for an nb_cfg below the one
\* of the last flow update, no flow update is for an nb_cfg above the one the
\* caller passed, and the last one has the new barrier's xid.
RegressDropsLater ==
    [][/\ last'.op = "put"
       /\ Len(txq') > Len(txq)
       /\ flow_updates # <<>>
       /\ flow_updates[Len(flow_updates)].nb_cfg > old_nb_cfg'
       => /\ \A n \in 1..Len(flow_updates') :
                flow_updates'[n].nb_cfg <= old_nb_cfg'
          /\ flow_updates' # <<>>
          /\ flow_updates'[Len(flow_updates')].xid = txq'[Len(txq')].xid]_vars

\* C34: an ofctrl_put() that updates the flow table and has nothing to send
\* writes the caller's nb_cfg over that of the last flow update and leaves
\* the xids, the number of flow updates and cur_cfg alone; with no flow
\* update it sets cur_cfg to the caller's nb_cfg.
PutNothingToSend ==
    [][last'.op = "put" /\ last'.ran /\ txq' = txq
       => IF flow_updates # <<>>
          THEN /\ flow_updates' =
                     [flow_updates EXCEPT
                        ![Len(flow_updates)].nb_cfg = old_nb_cfg']
               /\ cur_cfg' = cur_cfg
          ELSE /\ flow_updates' = <<>>
               /\ cur_cfg' = old_nb_cfg']_vars

\* An ofctrl_put() for nb_cfg 1 had nothing to send and left a flow update
\* for nb_cfg 1 with the xid of a barrier sent for nb_cfg 0, which the switch
\* has not answered; cur_cfg is still 0.
PutNothingToSendWitness ==
    /\ last.op = "put"
    /\ last.ran
    /\ txq = <<>>
    /\ cur_cfg = 0
    /\ Len(flow_updates) = 1
    /\ flow_updates[1].nb_cfg = 1
    /\ \E b \in PutBarriers(sw_pending) :
          b.xid = flow_updates[1].xid /\ b.nb_cfg = 0

(* ----------------------- the loop of ofctrl_run() ---------------------- *)

\* Largest number of packets the switch sends unasked between two
\* ofctrl_run() calls.
MaxBurst == 51

\* One connection to a switch that has no mapping for the option, answers
\* the requests in order, as late as it likes, and before its answers sends
\* up to MaxBurst errors nobody asked for; what ofctrl_run() left on the
\* connection is taken by the next call.
LoopNext ==
    \/ connection_seqno = 0 /\ Run("up", FALSE, 0, <<>>)
    \/ /\ connected
       /\ \E n \in 0..MaxBurst :
             \E served \in 0..Len(rconn_sent(Mem, txq # <<>>)) :
                \E inbox \in Inboxes(rconn_sent(Mem, txq # <<>>), served,
                                     {NoMappings}, {}) :
                   /\ rx # <<>> => n = 0 /\ served = 0
                   /\ Run("stay", txq # <<>>, served,
                          [k \in 1..n |->
                              OfMsg("OFPT_ERROR", 0, <<"OFPBRC_BAD_TYPE">>)]
                          \o inbox)

SpecLoop == Init /\ [][LoopNext]_vars

\* C35: an ofctrl_run() goes through its loop at most 50 times and takes at
\* most 50 packets, one per iteration; when it does not call
\* poll_immediate_wake() no packet is left, the state has no run_<STATE>()
\* that leaves it, and the iterations are one per packet, one more when the
\* state it was left in had such a run_<STATE>(), and the one that made no
\* progress; it calls poll_immediate_wake() exactly when the 50th iteration
\* took a packet or changed the state.
RunLoopBounded ==
    [][last'.op = "run"
       => /\ last'.iterations <= 50
          /\ Len(last'.handled) <= 50
          /\ Len(last'.handled) <= last'.iterations
          /\ ~connected' => last'.iterations = 0 /\ ~last'.wake
          /\ connected' /\ ~last'.wake
             => /\ rx' = <<>>
                /\ state' \notin {"S_NEW", "S_CLEAR_FLOWS"}
                /\ last'.iterations =
                      Len(last'.handled) + 1 +
                      (IF (IF last'.handled = <<>> THEN last'.entry
                           ELSE last'.handled[Len(last'.handled)].next_state)
                          \in {"S_NEW", "S_CLEAR_FLOWS"}
                       THEN 1 ELSE 0)
          /\ last'.wake
             <=> /\ last'.iterations = 50
                 /\ \/ Len(last'.handled) = 50
                    \/ /\ Len(last'.handled) = 49
                       /\ last'.handled[49].next_state
                             \in {"S_NEW", "S_CLEAR_FLOWS"}]_vars

\* An ofctrl_run() called poll_immediate_wake() after 50 iterations, the
\* last of which took no packet: the 49th took the barrier reply that ends
\* the negotiation and the 50th cleared the flows.
RunLoopBoundedWitness ==
    /\ last.op = "run"
    /\ last.wake
    /\ last.iterations = 50
    /\ Len(last.handled) = 49
    /\ state = "S_UPDATE_FLOWS"
    /\ rx = <<>>

\* C36: after an ofctrl_put() that updated the flow table, an update of the
\* flow table for the same nb_cfg with nothing changed queues no packet and
\* leaves the installed flows, the flow each of them takes as its primary,
\* the flow each desired flow is installed as, and the flow updates as they
\* are.
PutIdempotent ==
    last.op = "put" /\ last.ran
    => \E M2 \in {ofctrl_put_update(NoNodes(Mem), old_nb_cfg)} :
          /\ M2.ok
          /\ M2.txq = txq
          /\ M2.msgs = <<>>
          /\ M2.h = installed_flows
          /\ DOMAIN M2.i = DOMAIN iflows
          /\ \A i \in DOMAIN iflows :
                /\ M2.i[i].key = iflows[i].key
                /\ M2.i[i].ofpacts = iflows[i].ofpacts
                /\ M2.i[i].cookie = iflows[i].cookie
                /\ M2.i[i].desired_flow = iflows[i].desired_flow
                /\ Range(M2.i[i].desired_refs) = Range(iflows[i].desired_refs)
          /\ DOMAIN M2.d = DOMAIN dflows
          /\ \A d \in DOMAIN dflows :
                M2.d[d].installed_flow = dflows[d].installed_flow
          /\ M2.flow_updates = flow_updates
          /\ M2.groups = groups
          /\ M2.meters = meters
          /\ M2.pending_ct_zones = pending_ct_zones

\* An ofctrl_put() updated the flow table while two desired flows had one
\* key and different actions; the installed flow has the actions of its
\* primary.
PutIdempotentWitness ==
    /\ last.op = "put"
    /\ last.ran
    /\ txq # <<>>
    /\ \E d, e \in DOMAIN dflows :
          /\ dflows[d].key = dflows[e].key
          /\ dflows[d].ofpacts # dflows[e].ofpacts
          /\ dflows[d].installed_flow # NULL
          /\ dflows[e].installed_flow = dflows[d].installed_flow
          /\ iflows[dflows[d].installed_flow].desired_flow = d
          /\ iflows[dflows[d].installed_flow].ofpacts = dflows[d].ofpacts

\* C37: recv_S_NEW() is never called, so its OVS_NOT_REACHED() aborts
\* nothing: every packet an ofctrl_run() takes is received in another state,
\* and an ofctrl_run() on a connection that is up does not leave the state
\* S_NEW.
RecvNewNotReached ==
    /\ ~aborted
    /\ \A n \in 1..Len(last.handled) : last.handled[n].state # "S_NEW"
    /\ last.op = "run" /\ connected => state # "S_NEW"

\* A packet of the negotiation sent the state back to S_NEW and ofctrl_run()
\* took the next packet in the iteration after it, in
\* S_TLV_TABLE_REQUESTED.
RecvNewNotReachedWitness ==
    \E n \in 1..Len(last.handled) - 1 :
        /\ last.handled[n].state = "S_TLV_TABLE_MOD_SENT"
        /\ last.handled[n].next_state = "S_NEW"
        /\ last.handled[n + 1].state = "S_TLV_TABLE_REQUESTED"

\* C38: no ovs_assert() of the desired and installed flow tables fails,
\* whatever the caller does with the table.
NoAssertionFails == ~aborted

(* --------------------- the negotiation comes to an end ------------------ *)

\* ofctrl_run() on the connection that stays, with a switch that has
\* answered every request it holds; with 'race' one of its answers is the
\* error NXTTMFC_ALREADY_MAPPED or NXTTMFC_DUP_ENTRY, otherwise none is.
RunAnswered(race) ==
    /\ connected
    /\ \E inbox \in NegotiationInboxes(rconn_sent(Mem, txq # <<>>),
                                       Len(rconn_sent(Mem, txq # <<>>))) :
          /\ race <=> \E n \in 1..Len(inbox) :
                         /\ inbox[n].type = "OFPT_ERROR"
                         /\ inbox[n].body[1] \in {"NXTTMFC_ALREADY_MAPPED",
                                                  "NXTTMFC_DUP_ENTRY"}
          /\ Run("stay", txq # <<>>, Len(rconn_sent(Mem, txq # <<>>)), inbox)

\* One connection that comes up and stays; the switch answers at once or
\* later.
LiveNegotiationNext ==
    \/ connection_seqno = 0 /\ Run("up", FALSE, 0, <<>>)
    \/ RunAnswered(TRUE)
    \/ RunAnswered(FALSE)
    \/ connected /\ Run("stay", txq # <<>>, 0, <<>>)

\* The connection comes up, ofctrl_run() is called again and again, the
\* switch answers in the end, and it does not answer the TLV table mod with
\* a race error every time: weak fairness of the first ofctrl_run() and of
\* RunAnswered(FALSE), strong fairness of RunAnswered(FALSE) in
\* S_TLV_TABLE_MOD_SENT.  The fairness conditions are written out, with the
\* states in which the step is possible and changes something in the place
\* of ENABLED: before the connection came up, and while the connection or
\* the switch holds a request.
SpecLiveNegotiation ==
    /\ Init
    /\ [][LiveNegotiationNext]_vars
    /\ \/ []<>(connection_seqno # 0)
       \/ []<><<connection_seqno = 0 /\ Run("up", FALSE, 0, <<>>)>>_vars
    /\ \/ []<>(~connected \/ rconn_sent(Mem, txq # <<>>) = <<>>)
       \/ []<><<RunAnswered(FALSE)>>_vars
    /\ \/ <>[](\/ ~connected
               \/ rconn_sent(Mem, txq # <<>>) = <<>>
               \/ state # "S_TLV_TABLE_MOD_SENT")
       \/ []<><<state = "S_TLV_TABLE_MOD_SENT" /\ RunAnswered(FALSE)>>_vars

\* C39: on a connection that stays up, with a switch that answers every
\* request in the end and stops answering with race errors, ofctrl_run()
\* reaches S_UPDATE_FLOWS.
NegotiationEnds == connected ~> (state = "S_UPDATE_FLOWS")

\* S_UPDATE_FLOWS was reached by a negotiation that requested a field with
\* a TLV table mod and got the reply to the barrier behind it.
NegotiationEndsWitness ==
    /\ connected
    /\ state = "S_UPDATE_FLOWS"
    /\ mff_ovn_geneve # 0
    /\ \E n \in 1..Len(last.handled) :
          /\ last.handled[n].state = "S_TLV_TABLE_MOD_SENT"
          /\ last.handled[n].oh.type = "OFPT_BARRIER_REPLY"
          /\ last.handled[n].oh.xid = last.handled[n].xid2

(* ------------------- the flow updates are confirmed -------------------- *)

\* One connection to a switch that maps the option and answers the requests
\* in order, at once or later; a caller that adds and removes a flow and
\* calls ofctrl_put() with an nb_cfg that does not go down, while the switch
\* holds fewer than MaxPending requests.
LiveConfirmNext ==
    \/ CallerTurn /\ AddFlow(1, 1, <<"a">>, 1, FALSE)
    \/ CallerTurn /\ RemoveFlows(1)
    \/ connection_seqno = 0 /\ Run("up", FALSE, 0, <<>>)
    \/ /\ connected
       /\ \E served \in 0..Len(rconn_sent(Mem, txq # <<>>)) :
             \E inbox \in Inboxes(rconn_sent(Mem, txq # <<>>), served,
                                  {OursMapped}, {}) :
                Run("stay", txq # <<>>, served, inbox)
    \/ /\ CallerTurn
       /\ Len(rconn_sent(Mem, TRUE)) < MaxPending
       /\ \E nb_cfg \in old_nb_cfg..MaxCfg, flow_changed \in BOOLEAN :
             Put(nb_cfg, flow_changed)

\* The connection comes up, ofctrl_run() and ofctrl_put() are called again
\* and again, the switch answers in the end, and the caller stops changing
\* the desired flows: weak fairness of the first ofctrl_run(), of an
\* ofctrl_run() before which the queue has drained and the switch has
\* answered everything, and of ofctrl_put().  The fairness
\* conditions are written out, with the states in which the step is possible
\* and changes something in the place of ENABLED.
SpecLiveConfirm ==
    /\ Init
    /\ [][LiveConfirmNext]_vars
    /\ \/ []<>(connection_seqno # 0)
       \/ []<><<connection_seqno = 0 /\ Run("up", FALSE, 0, <<>>)>>_vars
    /\ \/ []<>(~connected \/ (txq = <<>> /\ sw_pending = <<>> /\ rx = <<>>))
       \/ []<><<last'.op = "run" /\ sw_pending' = <<>>>>_vars
    /\ \/ []<>(~CallerTurn \/ Len(rconn_sent(Mem, TRUE)) >= MaxPending)
       \/ []<><<last'.op = "put">>_vars
    /\ <>[][last'.op \notin {"add_flow", "remove_flows"}]_vars

\* C40: with an nb_cfg that does not go down, a caller that stops changing
\* the desired flows and a switch that answers every barrier in order, the
\* flow updates are all confirmed in the end and cur_cfg is the nb_cfg of the
\* last ofctrl_put(); and all along the first flow update has the xid of a
\* barrier that is still to be answered or whose reply is still to be taken.
ConfirmationEnds ==
    /\ <>[](flow_updates = <<>> /\ cur_cfg = old_nb_cfg)
    /\ [](flow_updates # <<>>
          => \E b \in PutBarriers(txq) \cup PutBarriers(sw_pending)
                      \cup {rx[n] : n \in 1..Len(rx)} :
                b.xid = flow_updates[1].xid)

\* cur_cfg is 1 and no flow update is left after two batches were sent for
\* nb_cfg 1, the second with a barrier xid that replaced the first in the
\* flow update.
ConfirmationEndsWitness ==
    /\ flow_updates = <<>>
    /\ cur_cfg = 1
    /\ old_nb_cfg = 1
    /\ last.op = "run"
    /\ \E n \in 1..Len(last.handled) :
          /\ last.handled[n].oh.type = "OFPT_BARRIER_REPLY"
          /\ last.handled[n].flow_updates # <<>>
          /\ last.handled[n].next_flow_updates = <<>>
          /\ last.handled[n].cur_cfg = 0
          /\ \E m \in 1..n - 1 :
                /\ last.handled[m].oh.type = "OFPT_BARRIER_REPLY"
                /\ last.handled[m].next_flow_updates = last.handled[m].flow_updates

====
